---------------------------- MODULE Spec2Model ----------------------------
(***************************************************************************)
(* Model of the NIFTY EMA-rejection trading repository.                    *)
(*                                                                         *)
(*  - the live options loop: NiftyEMARejectionStrategyOptions.run with its *)
(*    OrderManager (src/src/strategies/nifty_ema_rejection_options.py,     *)
(*    src/src/utils/order_manager.py);                                     *)
(*  - the primary replay engine: BacktestEngine.run / simulate_trade of    *)
(*    5minIntradayBacktest.py, and simulate_nifty_trade of                 *)
(*    intradayOptionsBacktestNifty.py.                                     *)
(*                                                                         *)
(* Prices are fixed-point integers, Scale units per index point; a float   *)
(* product or quotient is rounded down to this grid.  Times are minutes    *)
(* since midnight of day 0 (time of day = t % DAY).                        *)
(***************************************************************************)
EXTENDS Integers, Sequences, FiniteSets, TLC

VARIABLES
    (* ---- environment of the live loop ---- *)
    now,                        \* wall clock datetime.now(IST), minutes
    ticks,                      \* minutes elapsed since the process started
    srvDir,                     \* direction of the gateway's bar history (1 up, -1 down)
    srvNew,                     \* bars the gateway has published after the history
    (* ---- NiftyEMARejectionStrategyOptions ---- *)
    pc,                         \* position of run(): "run", "stopped", "crashed";
                                \* the OrderManager method called last when the
                                \* OrderManager is driven by any caller;
                                \* "off" when the replay runs
    last_signal_candle_time,
    last_processed_candle_time,
    sl_count_today,
    current_trade_active,
    cached_closes,
    ema15_cache,
    ema21_cache,
    processed_closed_trades,
    (* ---- OrderManager and the broker ---- *)
    trades,                     \* OrderManager.trades
    orders,                     \* the broker's order book: the accepted orders
    placed,                     \* place_market_order calls made by the step just taken
    evalLog,                    \* the bar times logged as "CLOSED Candle Evaluated"
    (* ---- primary replay engine ---- *)
    rpc,                        \* position of BacktestEngine.run: "loop", "done", "off"
    df,                         \* the pre-fetched bar series with its EMA columns
    ri,                         \* loop index i (0-based, as in the source)
    daily_sl_count,
    current_day,
    active_trade_until,
    rtrades,                    \* BacktestEngine.trades (the trade log)
    (* ---- NIFTY + options replay engine ---- *)
    nifty_trades,               \* BacktestEngine.nifty_trades
    option_trades,              \* BacktestEngine.option_trades
    (* ---- the forward scans of the replay engines, applied on their own ---- *)
    scanIn,                     \* arguments of a forward scan; in the NIFTY + options
                                \* replay, of the option scan of the step just taken
    scanOut,                    \* results of the scans applied to scanIn
    (* ---- the entry decisions, applied on their own ---- *)
    sample,                     \* a bar with the EMA values it is judged against;
                                \* the bars and gateway answers an entry method is
                                \* applied to
    verdict,                    \* results of the classifiers and decisions on sample
    (* ---- the OrderManager driven by any caller ---- *)
    quoted,                     \* the quotes get_ltp gave to the monitoring call just
                                \* made, by trade
    (* ---- the process ---- *)
    env,                        \* the credentials of .env, and whether every call
                                \* of the gateway returns
    calls                       \* the calls main made before the loop

liveVars == <<now, ticks, srvDir, srvNew, pc, last_signal_candle_time,
              last_processed_candle_time, sl_count_today, current_trade_active,
              cached_closes, ema15_cache, ema21_cache, processed_closed_trades,
              trades, orders, placed, evalLog>>
replayVars == <<rpc, df, ri, daily_sl_count, current_day, active_trade_until, rtrades,
                nifty_trades, option_trades, scanIn, scanOut>>
classVars == <<sample, verdict, quoted, env, calls>>
vars == <<liveVars, replayVars, classVars>>

---------------------------------------------------------------------------
(* Bounds of the model *)

MaxNew == 3          \* bars the gateway publishes after the history
MaxTicks == 31       \* minutes of wall clock explored from the start
MaxSkew == 1         \* minutes the gateway's clock may run ahead of the local one
MaxLag == 5          \* minutes after its start by which the gateway publishes a bar
MaxReplayBars == 4   \* bars of the replayed series after the warm-up
MaxShutBars == 3     \* the same, for series with bars that close at their extreme
MaxTrades == 1       \* trades a caller registers with the OrderManager
MaxScanBars == 2     \* bars after the entry bar in a forward scan
MaxCloses == 3       \* bars of a series handed to _update_ema_cache

---------------------------------------------------------------------------
(* Program constants *)

Scale == 10 * 10                \* fixed-point units per point
DAY == 24 * 60
BAR_MINUTES == 5                \* timedelta(minutes=5), interval="5minute"
MARKET_OPEN == 9 * 60 + 15      \* "09:15:00"
ENTRY_END_TIME == 15 * 60       \* "15:00:00"
FORCE_EXIT_TIME == 15 * 60 + 15 \* "15:15:00"
MIN_EMA_LEN == 35
MAX_SL_PER_DAY == 2
QUANTITY == 75
WARMUP == 30                    \* range(30, len(df))
RR_RATIO_TENTHS == 19           \* RR_RATIO = 1.9
NoTime == 0 - 1                 \* None

Abs(x) == IF x < 0 THEN -x ELSE x
Min2(a, b) == IF a <= b THEN a ELSE b
TimeOfDay(t) == t % DAY
DateOf(t) == t \div DAY
\* seq[-k] of Python
FromEnd(seq, k) == seq[Len(seq) + 1 - k]
Last(seq) == seq[Len(seq)]

---------------------------------------------------------------------------
(* The market-data gateway seen by the live loop: get_historical_candles    *)
(* returns the history followed by the bars published since.  The bars lie  *)
(* on the exchange's 5-minute grid, 75 bars a day from 09:15.               *)

BarsPerDay == (15 * 60 + 30 - MARKET_OPEN) \div BAR_MINUTES
GridTime(n) == (n \div BarsPerDay) * DAY + MARKET_OPEN + BAR_MINUTES * (n % BarsPerDay)
\* the process is started on day 1, before the open or in the afternoon, on a
\* market that has been rising (1) or falling (-1)
Scenarios ==
    {[start |-> DAY + 9 * 60 + 10, dir |-> 0 - 1],
     [start |-> DAY + 14 * 60 + 45, dir |-> 1],
     [start |-> DAY + 14 * 60 + 45, dir |-> 0 - 1]}
WarmLen == MIN_EMA_LEN - 1
BasePrice == 1000 * Scale
Slope == 2 * Scale

\* grid index of the last bar that started before time t
LastGridBefore(t) ==
    IF TimeOfDay(t) <= MARKET_OPEN THEN DateOf(t) * BarsPerDay - 1
    ELSE DateOf(t) * BarsPerDay
         + Min2(BarsPerDay - 1, (TimeOfDay(t) - MARKET_OPEN - 1) \div BAR_MINUTES)

Bar(t, o, h, l, c) == [date |-> t, open |-> o, high |-> h, low |-> l, close |-> c]

\* history bar i of a steady trend in direction dir, the history ending at grid
\* index lastIdx; the last bar of the history is a rejection bar
WarmBar(dir, lastIdx, i) ==
    LET c == BasePrice + dir * Slope * (i - 1)
        o == c - dir * Slope
    IN  Bar(GridTime(lastIdx - (WarmLen - i)), o,
            IF o > c THEN o ELSE c, IF o < c THEN o ELSE c, c)
WarmClose(dir) == BasePrice + dir * Slope * (WarmLen - 1)

\* shapes of a published bar: a rejection bar in the direction of the trend, or
\* a flat bar
Shapes == {"rej", "flat"}
ShapeBar(dir, t, shape) ==
    LET b == WarmClose(dir)
    IN  IF shape = "rej"
        THEN IF dir = 1
             THEN Bar(t, b - 8 * Scale, b + 5 * Scale, b - 10 * Scale, b + 4 * Scale)
             ELSE Bar(t, b + 8 * Scale, b + 10 * Scale, b - 5 * Scale, b - 4 * Scale)
        ELSE Bar(t, b, b + 2 * Scale, b - 2 * Scale, b)

\* the series the gateway returns: srvNew[k] is the shape of the k-th bar after
\* the history
SrvLastWarm(start) == LastGridBefore(start)
Candles(dir, new, start) ==
    LET lw == SrvLastWarm(start)
    IN  [i \in 1..(WarmLen + Len(new)) |->
            IF i < WarmLen THEN WarmBar(dir, lw, i)
            ELSE IF i = WarmLen THEN ShapeBar(dir, GridTime(lw), "rej")
            ELSE ShapeBar(dir, GridTime(lw + (i - WarmLen)), new[i - WarmLen])]

---------------------------------------------------------------------------
(* src/src/utils/indicators.py *)

EmaStep(price, prev, period) == (price * 2 + prev * (period - 1)) \div (period + 1)

RECURSIVE EmaAcc(_, _, _, _)
EmaAcc(values, period, i, emas) ==
    IF i > Len(values) THEN emas
    ELSE EmaAcc(values, period, i + 1,
                Append(emas, EmaStep(values[i], Last(emas), period)))

\* ema(values, period)
ema(values, period) ==
    IF Len(values) = 0 \/ period <= 0 THEN <<>>
    ELSE EmaAcc(values, period, 2, <<values[1]>>)

---------------------------------------------------------------------------
(* NiftyEMARejectionStrategyOptions: EMA cache and classifier *)

\* one appended value of ema15_cache / ema21_cache (lines 124-125)
CacheStep15(price, prev) == (price * 2 + prev * (16 - 2)) \div 16
CacheStep21(price, prev) == (price * 2 + prev * (22 - 2)) \div 22

RECURSIVE AppendNew(_, _, _)
\* the loop "for price in new_closes": c is <<ema15_cache, ema21_cache>>
AppendNew(closes, i, c) ==
    IF i > Len(closes) THEN c
    ELSE AppendNew(closes, i + 1,
                   <<Append(c[1], CacheStep15(closes[i], Last(c[1]))),
                     Append(c[2], CacheStep21(closes[i], Last(c[2])))>>)

\* _update_ema_cache(closes)
UpdateEmaCache(self, closes) ==
    IF Len(self.cached_closes) = 0
    THEN [self EXCEPT !.cached_closes = closes,
                      !.ema15_cache = ema(closes, 15),
                      !.ema21_cache = ema(closes, 21)]
    ELSE LET c == AppendNew(closes, Len(self.cached_closes) + 1,
                            <<self.ema15_cache, self.ema21_cache>>)
         IN  [self EXCEPT !.cached_closes = closes,
                          !.ema15_cache = c[1],
                          !.ema21_cache = c[2]]

InZone(x, ema15, ema21, tol) ==
    Abs(x - ema15) <= tol * Scale \/ Abs(x - ema21) <= tol * Scale

\* is_bullish_rejection(candle, ema15, ema21)
is_bullish_rejection(candle, ema15, ema21) ==
    LET o == candle.open
        c == candle.close
        h == candle.high
        l == candle.low
        body == c - o
        lower_wick == o - l
        upper_wick == h - c
        low_in_ema_zone == InZone(l, ema15, ema21, 7)
        open_in_ema_zone == InZone(o, ema15, ema21, 7)
        wick_rejection ==
            \/ (upper_wick < 4 * Scale /\ lower_wick >= 10 * Scale /\ c > o
                /\ open_in_ema_zone)
            \/ (o > ema15 /\ c > o /\ l < ema21 /\ upper_wick < 4 * Scale
                /\ lower_wick >= 10 * Scale)
        body_rejection ==
            body >= 10 * Scale /\ 10 * upper_wick <= 3 * body /\ low_in_ema_zone
    IN  wick_rejection \/ body_rejection

\* is_bearish_rejection(candle, ema15, ema21)
is_bearish_rejection(candle, ema15, ema21) ==
    IF ema15 > ema21 THEN FALSE
    ELSE
    LET o == candle.open
        c == candle.close
        h == candle.high
        l == candle.low
        body == o - c
        upper_wick == h - o
        lower_wick == c - l
        high_in_ema_zone == InZone(h, ema15, ema21, 4)
        open_in_ema_zone == InZone(o, ema15, ema21, 4)
        wick_rejection ==
            \/ (lower_wick < 4 * Scale /\ upper_wick >= 10 * Scale /\ o > c
                /\ open_in_ema_zone)
            \/ (o < ema15 /\ o > c /\ h > ema21 /\ lower_wick < 4 * Scale
                /\ upper_wick >= 10 * Scale)
        body_rejection ==
            body >= 10 * Scale /\ 10 * lower_wick <= 3 * body /\ high_in_ema_zone
    IN  wick_rejection \/ body_rejection

\* uptrend / downtrend of _process_candles (lines 156-157)
Uptrend(ema15, ema21) == ema15 > ema21 /\ Abs(ema15 - ema21) > 3 * Scale
Downtrend(ema15, ema21) == ema15 < ema21 /\ Abs(ema15 - ema21) > 3 * Scale


---------------------------------------------------------------------------
(* Outcomes of the gateway calls *)

LtpNone == 0 - 1                \* get_ltp returns None
LtpRaise == 0 - 2               \* get_ltp raises
OrderOutcomes == {"id", "none", "raise"}   \* place_order: an id, a falsy id, an exception

\* option bars the gateway returns for the option contract: [-2] is the trigger bar
OptCandle(l, c) == [low |-> l * Scale, close |-> c * Scale]
OptTriggers == {OptCandle(40, 50)}
OptFetches ==
    {[ok |-> FALSE, bars |-> <<>>]}
    \cup {[ok |-> TRUE, bars |-> <<OptCandle(45, 50)>>]}
    \cup {[ok |-> TRUE, bars |-> <<c, OptCandle(45, 50)>>] : c \in OptTriggers}
LtpPrices == {40 * Scale, 50 * Scale, 70 * Scale}
Quotes == LtpPrices \cup {LtpNone, LtpRaise}

EntryInputs ==
    [token_ok : BOOLEAN, opt : OptFetches, ltp : {50 * Scale, LtpRaise},
     order : OrderOutcomes]

\* the process was started with its credentials; a call of the gateway can
\* fail, or every call returns
FaultyEnv == [KITE_API_KEY |-> TRUE, KITE_API_SECRET |-> TRUE, sound |-> FALSE]
SoundEnv == [KITE_API_KEY |-> TRUE, KITE_API_SECRET |-> TRUE, sound |-> TRUE]
\* the answers the gateway can give in the environment of the process
OrderAnswers == IF env.sound THEN OrderOutcomes \ {"raise"} ELSE OrderOutcomes
QuoteAnswers(Q) == IF env.sound THEN Q \ {LtpRaise} ELSE Q
EntryAnswers ==
    IF env.sound
    THEN {inp \in EntryInputs : /\ inp.token_ok
                                /\ inp.opt.ok
                                /\ inp.ltp # LtpRaise
                                /\ inp.order # "raise"}
    ELSE EntryInputs

---------------------------------------------------------------------------
(* src/src/utils/order_manager.py, src/src/zerodha_client.py *)

\* ZerodhaClient.place_market_order: the call is recorded; an accepted order
\* enters the book with the next order id; call.trade is the place in
\* OrderManager.trades of the trade the order exits, 0 for an entry
PlaceMarketOrder(self, symbol, qty, side, outcome, ref) ==
    LET call == [symbol |-> symbol, qty |-> qty, side |-> side, result |-> outcome,
                 trade |-> ref]
    IN  IF outcome = "id"
        THEN [self EXCEPT !.placed = Append(@, call),
                          !.orders = Append(@, [id |-> Len(self.orders) + 1,
                                                symbol |-> symbol, qty |-> qty,
                                                side |-> side])]
        ELSE [self EXCEPT !.placed = Append(@, call)]

OpenTrade(symbol, qty, entry_price, stop_loss, target, order_id) ==
    [symbol |-> symbol, qty |-> qty, direction |-> "LONG",
     entry_transaction_type |-> "BUY", entry_price |-> entry_price,
     stop_loss |-> stop_loss, target |-> target, entry_order_id |-> order_id,
     trade_type |-> "OPTION_BUY", exit_order_id |-> 0, status |-> "OPEN"]

\* OrderManager.enter_trade; an order the broker answers with no id still
\* registers the trade (entry_order_id 0 stands for None)
enter_trade(self, symbol, qty, direction, entry_price, stop_loss, target, outcome) ==
    IF direction \notin {"LONG", "SHORT"} THEN [self EXCEPT !.exc = TRUE]
    ELSE LET transaction_type == IF direction = "LONG" THEN "BUY" ELSE "SELL"
             registered(s1) ==
                 IF outcome = "raise" THEN [s1 EXCEPT !.exc = TRUE]
                 ELSE [s1 EXCEPT !.trades = Append(@,
                          [symbol |-> symbol, qty |-> qty, direction |-> direction,
                           entry_transaction_type |-> transaction_type,
                           entry_price |-> entry_price, stop_loss |-> stop_loss,
                           target |-> target,
                           entry_order_id |-> IF outcome = "id" THEN Len(s1.orders)
                                              ELSE 0,
                           trade_type |-> "NORMAL", exit_order_id |-> 0,
                           status |-> "OPEN"]),
                                 !.ret = TRUE]
         IN  registered(PlaceMarketOrder(self, symbol, qty, transaction_type,
                                         outcome, 0))

\* OrderManager.buy_option_trade: self.ret tells whether a trade was returned
buy_option_trade(self, symbol, qty, entry_price, stop_loss, target, outcome) ==
    LET registered(s1) ==
            IF outcome = "raise" THEN [s1 EXCEPT !.ret = FALSE]
            ELSE IF outcome = "none" THEN [s1 EXCEPT !.ret = FALSE]
            ELSE [s1 EXCEPT !.trades = Append(@, OpenTrade(symbol, qty, entry_price,
                                                  stop_loss, target, Len(s1.orders))),
                            !.ret = TRUE]
    IN  registered(PlaceMarketOrder(self, symbol, qty, "BUY", outcome, 0))

\* an exit that repeats the side of the entry
ExitTradeSameSide(self, i, reason, outcome) ==
    LET trade == self.trades[i]
        closed(s1) ==
            IF outcome = "raise" THEN [s1 EXCEPT !.exc = TRUE]
            ELSE IF outcome = "id"
            THEN [s1 EXCEPT !.trades[i].exit_order_id = Len(s1.orders),
                            !.trades[i].status = reason]
            ELSE s1
    IN  closed(PlaceMarketOrder(self, trade.symbol, trade.qty,
                                trade.entry_transaction_type, outcome, i))

\* an exit that marks the trade closed without looking at the order id
ExitTradeUnchecked(self, i, reason, outcome) ==
    LET trade == self.trades[i]
        exit_transaction_type ==
            IF trade.entry_transaction_type = "BUY" THEN "SELL" ELSE "BUY"
        closed(s1) ==
            IF outcome = "raise" THEN [s1 EXCEPT !.exc = TRUE]
            ELSE [s1 EXCEPT !.trades[i].exit_order_id =
                                IF outcome = "id" THEN Len(s1.orders) ELSE 0,
                            !.trades[i].status = reason]
    IN  closed(PlaceMarketOrder(self, trade.symbol, trade.qty,
                                exit_transaction_type, outcome, i))

\* OrderManager._exit_trade
ExitTrade(self, i, reason, outcome) ==
    LET trade == self.trades[i]
        exit_transaction_type ==
            IF trade.entry_transaction_type = "BUY" THEN "SELL" ELSE "BUY"
        closed(s1) ==
            IF outcome = "raise" THEN [s1 EXCEPT !.exc = TRUE]
            ELSE IF outcome = "id"
            THEN [s1 EXCEPT !.trades[i].exit_order_id = Len(s1.orders),
                            !.trades[i].status = reason]
            ELSE s1
    IN  closed(PlaceMarketOrder(self, trade.symbol, trade.qty,
                                exit_transaction_type, outcome, i))

\* a monitoring loop that looks at every trade, whatever its status
IsOpenAlways(trade) == TRUE
\* the guard of the monitoring loops: only an OPEN trade is looked at
IsOpen(trade) == trade.status = "OPEN"

RECURSIVE MonitorBuyFrom(_, _, _, _)
\* OrderManager.monitor_buy_option_trades, from trade i on; q[i] is the quote
\* and x[i] the outcome of the exit order of trade i
MonitorBuyFrom(self, i, q, x) ==
    IF self.exc \/ i > Len(self.trades) THEN self
    ELSE LET trade == self.trades[i]
         IN  IF ~IsOpen(trade) THEN MonitorBuyFrom(self, i + 1, q, x)
             ELSE IF trade.trade_type # "OPTION_BUY"
             THEN MonitorBuyFrom(self, i + 1, q, x)
             ELSE IF q[i] = LtpRaise THEN [self EXCEPT !.exc = TRUE]
             ELSE IF q[i] = LtpNone THEN MonitorBuyFrom(self, i + 1, q, x)
             ELSE IF q[i] >= trade.target
             THEN MonitorBuyFrom(ExitTrade(self, i, "TARGET_HIT", x[i]), i + 1, q, x)
             ELSE IF q[i] <= trade.stop_loss
             THEN MonitorBuyFrom(ExitTrade(self, i, "SL_HIT", x[i]), i + 1, q, x)
             ELSE MonitorBuyFrom(self, i + 1, q, x)

monitor_buy_option_trades(self, q, x) == MonitorBuyFrom(self, 1, q, x)

RECURSIVE MonitorFrom(_, _, _, _)
\* OrderManager.monitor_trades, from trade i on
MonitorFrom(self, i, q, x) ==
    IF self.exc \/ i > Len(self.trades) THEN self
    ELSE LET trade == self.trades[i]
         IN  IF ~IsOpen(trade) THEN MonitorFrom(self, i + 1, q, x)
             ELSE IF q[i] = LtpRaise THEN [self EXCEPT !.exc = TRUE]
             ELSE IF q[i] = LtpNone THEN MonitorFrom(self, i + 1, q, x)
             ELSE IF trade.entry_transaction_type = "BUY"
             THEN IF q[i] >= trade.target
                  THEN MonitorFrom(ExitTrade(self, i, "TARGET_HIT", x[i]), i + 1, q, x)
                  ELSE IF q[i] <= trade.stop_loss
                  THEN MonitorFrom(ExitTrade(self, i, "SL_HIT", x[i]), i + 1, q, x)
                  ELSE MonitorFrom(self, i + 1, q, x)
             ELSE IF q[i] <= trade.target
                  THEN MonitorFrom(ExitTrade(self, i, "TARGET_HIT", x[i]), i + 1, q, x)
                  ELSE IF q[i] >= trade.stop_loss
                  THEN MonitorFrom(ExitTrade(self, i, "SL_HIT", x[i]), i + 1, q, x)
                  ELSE MonitorFrom(self, i + 1, q, x)

\* a monitoring that applies the rule of a bought option to every trade
monitor_trades_as_bought(self, q, x) == MonitorBuyFrom(self, 1, q, x)
monitor_trades(self, q, x) == MonitorFrom(self, 1, q, x)

RECURSIVE ForceFrom(_, _, _)
\* OrderManager.force_square_off_all, from trade i on
ForceFrom(self, i, x) ==
    IF self.exc \/ i > Len(self.trades) THEN self
    ELSE IF IsOpen(self.trades[i])
         THEN ForceFrom(ExitTrade(self, i, "FORCE_EXIT", x[i]), i + 1, x)
         ELSE ForceFrom(self, i + 1, x)

force_square_off_all(self, x) == ForceFrom(self, 1, x)

OpenIdx(ts) == {i \in 1..Len(ts) : ts[i].status = "OPEN"}


---------------------------------------------------------------------------
(* NiftyEMARejectionStrategyOptions: entries and _process_candles *)

\* get_strike_price(ltp, "UP") and get_nifty_option_symbol: the contract is
\* named by its strike and type
OptionSymbol(spot, trend) ==
    LET step == 50 * Scale
    IN  IF trend = "UP"
        THEN [strike |-> ((spot + step - 1) \div step) * 50, type |-> "CE"]
        ELSE [strike |-> (spot \div step) * 50, type |-> "PE"]

\* _enter_long_ce(spot_price)
EnterLongCe(self, spot_price, inp) ==
    LET tsym == OptionSymbol(spot_price, "UP")
    IN  IF ~inp.token_ok THEN [self EXCEPT !.exc = TRUE]       \* get_instrument_token raises
        ELSE IF inp.ltp = LtpRaise THEN [self EXCEPT !.exc = TRUE]
        ELSE IF ~inp.opt.ok \/ Len(inp.opt.bars) < 2
        THEN [self EXCEPT !.exc = TRUE]                        \* opt_candles[-2]
        ELSE LET opt_trigger_candle == FromEnd(inp.opt.bars, 2)
                 opt_low == opt_trigger_candle.low
                 opt_close == opt_trigger_candle.close
                 stop_loss == opt_low
                 target == opt_close + 2 * (opt_close - opt_low)
                 flagged(s1) ==
                     IF s1.ret THEN [s1 EXCEPT !.current_trade_active = TRUE] ELSE s1
             IN  flagged(buy_option_trade(self, tsym, QUANTITY, inp.ltp, stop_loss,
                                          target, inp.order))

\* the call _enter_short_pe(signal_candle, prev_candle, nifty_spot) of line 193:
\* the method takes one argument, so the call raises TypeError
EnterShortPeCall(self) == [self EXCEPT !.exc = TRUE]

\* a loop whose short entry has no condition
AlwaysShortSignal(candle, ema15, ema21) == TRUE
\* a loop without one of its guards
NeverProcessed(self, signal_time) == FALSE
CandleAlwaysClosed(tnow, signal_time) == TRUE
TradeNeverLocked(self) == FALSE
SlCapNeverReached(self) == FALSE

\* the closed candle the loop looks at (line 139)
SignalCandle(candles) == FromEnd(candles, 2)
\* the guards of _process_candles
AlreadyProcessed(self, signal_time) == self.last_processed_candle_time = signal_time
CandleClosed(tnow, signal_time) == ~(tnow < signal_time + BAR_MINUTES)
PastEntryEnd(tnow) == TimeOfDay(tnow) >= ENTRY_END_TIME
TradeLocked(self) == self.current_trade_active
SlCapReached(self) == self.sl_count_today >= MAX_SL_PER_DAY

\* the entry decision of lines 171-195 for a candle that passed the guards
LongSignal(candle, ema15, ema21) ==
    Uptrend(ema15, ema21) /\ is_bullish_rejection(candle, ema15, ema21)
ShortSignal(candle, ema15, ema21) ==
    Downtrend(ema15, ema21) /\ is_bearish_rejection(candle, ema15, ema21)

\* lines 171-195: the candle passed the guards and is evaluated
EvaluateCandle(s3, signal_candle, signal_time, ema15, ema21, nifty_spot, inp) ==
    IF LongSignal(signal_candle, ema15, ema21)
    THEN \* uptrend and downtrend exclude each other: the second "if" is not taken
         LET entered(e) ==
                 IF e.exc THEN e
                 ELSE LET marked == [e EXCEPT !.last_signal_candle_time = signal_time,
                                              !.current_trade_active = TRUE]
                      IN  IF ShortSignal(signal_candle, ema15, ema21)
                          THEN EnterShortPeCall(marked) ELSE marked
         IN  entered(EnterLongCe(s3, nifty_spot, inp))
    ELSE IF ShortSignal(signal_candle, ema15, ema21)
    THEN EnterShortPeCall(s3)
    ELSE s3

\* lines 143-169: the guards, on the strategy s1 whose caches are updated
GuardCandle(s1, candles, closes, tnow, inp) ==
    LET signal_candle == SignalCandle(candles)
        signal_time == signal_candle.date
    IN  IF AlreadyProcessed(s1, signal_time) THEN s1
        ELSE IF ~CandleClosed(tnow, signal_time)
             \/ PastEntryEnd(tnow) \/ TradeLocked(s1) \/ SlCapReached(s1)
        THEN [s1 EXCEPT !.last_processed_candle_time = signal_time]
        ELSE EvaluateCandle(
                [s1 EXCEPT !.last_processed_candle_time = signal_time,
                           !.evalLog = Append(@, signal_time)],
                signal_candle, signal_time,
                FromEnd(s1.ema15_cache, 2), FromEnd(s1.ema21_cache, 2),
                FromEnd(closes, 1), inp)

ProcessClosed(s1, candles, closes, tnow, inp) ==
    IF Len(s1.ema15_cache) < MIN_EMA_LEN THEN s1
    ELSE GuardCandle(s1, candles, closes, tnow, inp)

ProcessWith(self, candles, closes, tnow, inp) ==
    ProcessClosed(UpdateEmaCache(self, closes), candles, closes, tnow, inp)

\* _process_candles(candles, now)
ProcessCandles(self, candles, tnow, inp) ==
    ProcessWith(self, candles, [i \in 1..Len(candles) |-> candles[i].close], tnow, inp)

\* a reset loop that counts every closed trade as a stop
EveryCloseCounts(trade) == TRUE
\* line 83: the closed trade counts towards sl_count_today
CountsAsStop(trade) == trade.status = "SL_HIT"

\* a loop without its reset after a trade closes
ResetNothing(self, i) == self

RECURSIVE ResetFrom(_, _)
\* the loop "Reset logic after trade closes" of run (lines 77-89); a trade is
\* identified by its place in OrderManager.trades
ResetFrom(self, i) ==
    IF i > Len(self.trades) THEN self
    ELSE IF self.trades[i].status # "OPEN" /\ i \notin self.processed_closed_trades
    THEN ResetFrom([self EXCEPT
                      !.processed_closed_trades = @ \cup {i},
                      !.sl_count_today =
                          IF CountsAsStop(self.trades[i]) THEN @ + 1 ELSE @,
                      !.current_trade_active = FALSE,
                      !.last_signal_candle_time = NoTime], i + 1)
    ELSE ResetFrom(self, i + 1)

---------------------------------------------------------------------------
(* The live loop as a state machine *)

Self ==
    [last_signal_candle_time |-> last_signal_candle_time,
     last_processed_candle_time |-> last_processed_candle_time,
     sl_count_today |-> sl_count_today,
     current_trade_active |-> current_trade_active,
     cached_closes |-> cached_closes,
     ema15_cache |-> ema15_cache,
     ema21_cache |-> ema21_cache,
     processed_closed_trades |-> processed_closed_trades,
     trades |-> trades, orders |-> orders, placed |-> <<>>, evalLog |-> evalLog,
     exc |-> FALSE, ret |-> FALSE]

\* the strategy object after a step, and where run() is
Commit(s, where) ==
    /\ pc' = where
    /\ last_signal_candle_time' = s.last_signal_candle_time
    /\ last_processed_candle_time' = s.last_processed_candle_time
    /\ sl_count_today' = s.sl_count_today
    /\ current_trade_active' = s.current_trade_active
    /\ cached_closes' = s.cached_closes
    /\ ema15_cache' = s.ema15_cache
    /\ ema21_cache' = s.ema21_cache
    /\ processed_closed_trades' = s.processed_closed_trades
    /\ trades' = s.trades
    /\ orders' = s.orders
    /\ placed' = s.placed
    /\ evalLog' = s.evalLog

FetchedCandles == Candles(srvDir, srvNew, now - ticks)

NoInput == [token_ok |-> TRUE, opt |-> [ok |-> FALSE, bars |-> <<>>],
            ltp |-> LtpRaise, order |-> "raise"]

\* whether this call of _process_candles reaches an entry method and so reads
\* the outcomes of its gateway calls
ReachesEntry(self, candles, tnow) ==
    ProcessCandles(self, candles, tnow, NoInput).exc

InitLive ==
    /\ \E sc \in Scenarios : now = sc.start /\ srvDir = sc.dir
    /\ ticks = 0
    /\ srvNew = <<>>
    /\ pc = "run"
    /\ last_signal_candle_time = NoTime
    /\ last_processed_candle_time = NoTime
    /\ sl_count_today = 0
    /\ current_trade_active = FALSE
    /\ cached_closes = <<>>
    /\ ema15_cache = <<>>
    /\ ema21_cache = <<>>
    /\ processed_closed_trades = {}
    /\ trades = <<>>
    /\ orders = <<>>
    /\ placed = <<>>
    /\ evalLog = <<>>

NextBarTime == GridTime(SrvLastWarm(now - ticks) + Len(srvNew) + 1)
LastBarTime == GridTime(SrvLastWarm(now - ticks) + Len(srvNew))

\* the instants at which a guard of the loop or of the gateway changes: the
\* session times, the close of the bar in progress, and for the next bar of the
\* grid the earliest instant it can be published, its start and the instant by
\* which it is published
Instants(t) ==
    {DateOf(t) * DAY + MARKET_OPEN, DateOf(t) * DAY + ENTRY_END_TIME,
     DateOf(t) * DAY + FORCE_EXIT_TIME, (DateOf(t) + 1) * DAY + MARKET_OPEN,
     LastBarTime + BAR_MINUTES}
    \cup (IF Len(srvNew) < MaxNew
          THEN {NextBarTime - MaxSkew, NextBarTime, NextBarTime + MaxLag}
          ELSE {})

\* the first of these instants at or after t
NextInstant(t) ==
    CHOOSE u \in Instants(t) :
        u >= t /\ \A v \in Instants(t) : v >= t => u <= v

\* the wall clock advances to the next such instant
Tick ==
    /\ pc = "run"
    /\ NextInstant(now + 1) - (now - ticks) <= MaxTicks
    /\ Len(srvNew) < MaxNew => now < NextBarTime + MaxLag
    /\ now' = NextInstant(now + 1)
    /\ ticks' = now' - (now - ticks)
    /\ placed' = <<>>
    /\ UNCHANGED <<srvDir, srvNew, pc, last_signal_candle_time,
                   last_processed_candle_time, sl_count_today, current_trade_active,
                   cached_closes, ema15_cache, ema21_cache, processed_closed_trades,
                   trades, orders, evalLog>>

\* the gateway publishes the next bar of the grid, in progress
SrvPublish ==
    /\ pc = "run"
    /\ Len(srvNew) < MaxNew
    /\ now + MaxSkew >= NextBarTime
    /\ \E sh \in Shapes : srvNew' = Append(srvNew, sh)
    /\ placed' = <<>>
    /\ UNCHANGED <<now, ticks, srvDir, pc, last_signal_candle_time,
                   last_processed_candle_time, sl_count_today, current_trade_active,
                   cached_closes, ema15_cache, ema21_cache, processed_closed_trades,
                   trades, orders, evalLog>>

\* the bar in progress moves
SrvUpdate ==
    /\ pc = "run"
    /\ Len(srvNew) > 0
    /\ now < LastBarTime + BAR_MINUTES
    /\ \E sh \in Shapes \ {Last(srvNew)} :
          srvNew' = [srvNew EXCEPT ![Len(srvNew)] = sh]
    /\ placed' = <<>>
    /\ UNCHANGED <<now, ticks, srvDir, pc, last_signal_candle_time,
                   last_processed_candle_time, sl_count_today, current_trade_active,
                   cached_closes, ema15_cache, ema21_cache, processed_closed_trades,
                   trades, orders, evalLog>>

\* one iteration of run() before 09:15: sleep
PreOpenCycle ==
    /\ pc = "run"
    /\ TimeOfDay(now) < MARKET_OPEN
    /\ Commit(Self, "run")
    /\ UNCHANGED <<now, ticks, srvDir, srvNew>>

\* one iteration of run() at or after FORCE_EXIT_TIME
ForceExitCycle ==
    /\ pc = "run"
    /\ ~(TimeOfDay(now) < MARKET_OPEN)
    /\ TimeOfDay(now) >= FORCE_EXIT_TIME
    /\ \E x \in [OpenIdx(trades) -> OrderAnswers] :
       \E s \in {force_square_off_all(Self, x)} :
          IF s.exc THEN Commit(s, "crashed") ELSE Commit(s, "stopped")
    /\ UNCHANGED <<now, ticks, srvDir, srvNew>>

\* monitor_buy_option_trades and the reset loop, after _process_candles left s1
MonitorAndReset(s1) ==
    IF s1.exc THEN Commit(s1, "crashed")
    ELSE \E q \in [OpenIdx(s1.trades) -> QuoteAnswers(Quotes)] :
         \E x \in [OpenIdx(s1.trades) -> OrderAnswers] :
         \E s2 \in {monitor_buy_option_trades(s1, q, x)} :
            IF s2.exc THEN Commit(s2, "crashed")
            ELSE Commit(ResetFrom(s2, 1), "run")

\* one iteration of run() during the session: fetch, process, monitor, reset
PollCycle ==
    /\ pc = "run"
    /\ ~(TimeOfDay(now) < MARKET_OPEN)
    /\ ~(TimeOfDay(now) >= FORCE_EXIT_TIME)
    /\ \/ ~env.sound /\ MonitorAndReset(Self)   \* _fetch_recent_candles returned None
       \/ \E candles \in {FetchedCandles} :
          \E inp \in IF ReachesEntry(Self, candles, now) THEN EntryAnswers
                     ELSE {NoInput} :
          \E s1 \in {ProcessCandles(Self, candles, now, inp)} :
             MonitorAndReset(s1)
    /\ UNCHANGED <<now, ticks, srvDir, srvNew>>

\* no decision is applied on its own
NoSample == [candle |-> Bar(0, 0, 0, 0, 0), ema15 |-> 0, ema21 |-> 0, past15 |-> 0]
ClassOff ==
    /\ sample = NoSample
    /\ verdict = <<>>
    /\ quoted = <<>>
    /\ env = FaultyEnv
    /\ calls = <<>>

\* no scan is applied on its own
NoScan == [d |-> <<>>, entry_index |-> 0, entry |-> 0, sl |-> 0, target |-> 0,
           direction |-> "NONE"]

ReplayOff ==
    /\ rpc = "off"
    /\ df = <<>>
    /\ ri = 0
    /\ daily_sl_count = <<>>
    /\ current_day = NoTime
    /\ active_trade_until = NoTime
    /\ rtrades = <<>>
    /\ nifty_trades = <<>>
    /\ option_trades = <<>>
    /\ scanIn = NoScan
    /\ scanOut = <<>>

NextLive ==
    \/ (Tick /\ UNCHANGED <<replayVars, classVars>>)
    \/ (SrvPublish /\ UNCHANGED <<replayVars, classVars>>)
    \/ (SrvUpdate /\ UNCHANGED <<replayVars, classVars>>)
    \/ (PreOpenCycle /\ UNCHANGED <<replayVars, classVars>>)
    \/ (ForceExitCycle /\ UNCHANGED <<replayVars, classVars>>)
    \/ (PollCycle /\ UNCHANGED <<replayVars, classVars>>)

InitLiveOnly == InitLive /\ ReplayOff /\ ClassOff
SpecLive == InitLiveOnly /\ [][NextLive]_vars

\* the live options loop with a gateway whose calls all return, under a clock
\* that keeps advancing, a gateway that keeps publishing bars and a loop that
\* takes its iteration at the cutoff
InitSound ==
    /\ InitLive
    /\ ReplayOff
    /\ sample = NoSample
    /\ verdict = <<>>
    /\ quoted = <<>>
    /\ env = SoundEnv
    /\ calls = <<>>
LiveFair ==
    /\ WF_vars(Tick /\ UNCHANGED <<replayVars, classVars>>)
    /\ WF_vars(SrvPublish /\ UNCHANGED <<replayVars, classVars>>)
    /\ WF_vars(ForceExitCycle /\ UNCHANGED <<replayVars, classVars>>)
SpecSound == InitSound /\ [][NextLive]_vars /\ LiveFair

---------------------------------------------------------------------------
(* main of src/main_option.py: the credentials, the session, the test calls *)
(* of the gateway, then the strategy loop                                    *)

\* a test that looks at the key only
KeyMissing(e) == ~e.KITE_API_KEY
\* line 25: not API_KEY or not API_SECRET
CredentialsMissing(e) == ~e.KITE_API_KEY \/ ~e.KITE_API_SECRET

\* what .env can hold
Envs == [KITE_API_KEY : BOOLEAN, KITE_API_SECRET : BOOLEAN, sound : {FALSE}]
\* the calls of lines 34-47 in their order
TestCalls == <<"get_profile", "get_ltp", "get_positions">>

\* the process at the start of main: no strategy object exists, its fields are
\* shown with the values __init__ will give them
InitMain ==
    /\ \E sc \in Scenarios : now = sc.start /\ srvDir = sc.dir
    /\ ticks = 0
    /\ srvNew = <<>>
    /\ pc = "main"
    /\ last_signal_candle_time = NoTime
    /\ last_processed_candle_time = NoTime
    /\ sl_count_today = 0
    /\ current_trade_active = FALSE
    /\ cached_closes = <<>>
    /\ ema15_cache = <<>>
    /\ ema21_cache = <<>>
    /\ processed_closed_trades = {}
    /\ trades = <<>>
    /\ orders = <<>>
    /\ placed = <<>>
    /\ evalLog = <<>>
    /\ ReplayOff
    /\ sample = NoSample
    /\ verdict = <<>>
    /\ quoted = <<>>
    /\ env \in Envs
    /\ calls = <<>>

\* lines 20-27: the credentials are read and tested
MainCredentials ==
    /\ pc = "main"
    /\ IF CredentialsMissing(env) THEN Commit(Self, "returned")
       ELSE Commit(Self, "init_kite")
    /\ UNCHANGED <<now, ticks, srvDir, srvNew, calls>>

\* line 31: init_kite returns a session, or fails (an exception that main
\* logs, or sys.exit in generate_access_token)
MainInitKite ==
    /\ pc = "init_kite"
    /\ calls' = Append(calls, "init_kite")
    /\ \E ok \in BOOLEAN : Commit(Self, IF ok THEN "tests" ELSE "failed")
    /\ UNCHANGED <<now, ticks, srvDir, srvNew>>

\* lines 33-53: the client, the three test calls, of which the first n return,
\* the strategy object and the call of run
MainTests ==
    /\ pc = "tests"
    /\ \E n \in 0..Len(TestCalls) :
          /\ calls' = calls \o SubSeq(TestCalls, 1, IF n < Len(TestCalls) THEN n + 1
                                                    ELSE n)
          /\ Commit(Self, IF n = Len(TestCalls) THEN "run" ELSE "failed")
    /\ UNCHANGED <<now, ticks, srvDir, srvNew>>

NextMain ==
    \/ (MainCredentials /\ UNCHANGED <<replayVars, sample, verdict, quoted, env>>)
    \/ (MainInitKite /\ UNCHANGED <<replayVars, sample, verdict, quoted, env>>)
    \/ (MainTests /\ UNCHANGED <<replayVars, sample, verdict, quoted, env>>)
    \/ NextLive

SpecMain == InitMain /\ [][NextMain]_vars


---------------------------------------------------------------------------
(* The primary replay engine: 5minIntradayBacktest.py *)

\* ema(series, period): series.ewm(span=period, adjust=False).mean()
ewm_mean(values, span) ==
    IF Len(values) = 0 THEN <<>>
    ELSE EmaAcc(values, span, 2, <<values[1]>>)

\* is_bullish_rejection(candle, ema15, ema21) of the replay engine
bt_is_bullish_rejection(candle, ema15, ema21) ==
    IF ema15 < ema21 THEN FALSE
    ELSE
    LET o == candle.open
        c == candle.close
        h == candle.high
        l == candle.low
        body == c - o
        lower_wick == o - l
        upper_wick == h - c
        low_in_ema_zone == InZone(l, ema15, ema21, 7)
        open_in_ema_zone == InZone(o, ema15, ema21, 7)
        wick_rejection ==
            \/ (upper_wick < 4 * Scale /\ lower_wick >= 10 * Scale /\ c > o
                /\ open_in_ema_zone)
            \/ (o > ema15 /\ c > o /\ l < ema21 /\ upper_wick < 4 * Scale
                /\ lower_wick >= 10 * Scale)
        body_rejection ==
            body >= 10 * Scale /\ 10 * upper_wick <= 3 * body /\ low_in_ema_zone
    IN  wick_rejection \/ body_rejection

\* is_bearish_rejection(candle, ema15, ema21) of the replay engine
bt_is_bearish_rejection(candle, ema15, ema21) ==
    IF ema15 > ema21 THEN FALSE
    ELSE
    LET o == candle.open
        c == candle.close
        h == candle.high
        l == candle.low
        body == o - c
        upper_wick == h - o
        lower_wick == c - l
        high_in_ema_zone == InZone(h, ema15, ema21, 4)
        open_in_ema_zone == InZone(o, ema15, ema21, 4)
        wick_rejection ==
            \/ (lower_wick < 4 * Scale /\ upper_wick >= 10 * Scale /\ o > c
                /\ open_in_ema_zone)
            \/ (o < ema15 /\ o > c /\ h > ema21 /\ lower_wick < 4 * Scale
                /\ upper_wick >= 10 * Scale)
        body_rejection ==
            body >= 10 * Scale /\ 10 * lower_wick <= 3 * body /\ high_in_ema_zone
    IN  wick_rejection \/ body_rejection

\* a forward scan that looks at the stop before the target
ScanBarStopFirst(candle, sl, target, direction) ==
    IF direction = "CE"
    THEN IF candle.low <= sl THEN "SL_HIT"
         ELSE IF candle.high >= target THEN "TARGET_HIT" ELSE "NONE"
    ELSE IF candle.high >= sl THEN "SL_HIT"
         ELSE IF candle.low <= target THEN "TARGET_HIT" ELSE "NONE"

\* which level a bar breaches first in the forward scan: "TARGET_HIT", "SL_HIT"
\* or "NONE" (lines 267-277)
ScanBar(candle, sl, target, direction) ==
    IF direction = "CE"
    THEN IF candle.high >= target THEN "TARGET_HIT"
         ELSE IF candle.low <= sl THEN "SL_HIT" ELSE "NONE"
    ELSE IF candle.low <= target THEN "TARGET_HIT"
         ELSE IF candle.high >= sl THEN "SL_HIT" ELSE "NONE"

\* a forward scan that does not look at the day of the bars
NeverNextDay(candle, entry_date) == FALSE
\* line 263: the bar lies on another day than the entry bar
NextDayStarted(candle, entry_date) == DateOf(candle.date) # entry_date

RECURSIVE SimulateFrom(_, _, _, _, _, _)
\* the loop of simulate_trade from 1-based position j on
SimulateFrom(d, j, entry_date, sl, target, direction) ==
    IF j > Len(d)
    THEN [outcome |-> "EOD_EXIT", exit_price |-> Last(d).close,
          exit_time |-> Last(d).date]
    ELSE IF NextDayStarted(d[j], entry_date)
    THEN [outcome |-> "EOD_EXIT", exit_price |-> d[j - 1].close,
          exit_time |-> d[j - 1].date]
    ELSE IF ScanBar(d[j], sl, target, direction) = "TARGET_HIT"
    THEN [outcome |-> "TARGET_HIT", exit_price |-> target, exit_time |-> d[j].date]
    ELSE IF ScanBar(d[j], sl, target, direction) = "SL_HIT"
    THEN [outcome |-> "SL_HIT", exit_price |-> sl, exit_time |-> d[j].date]
    ELSE SimulateFrom(d, j + 1, entry_date, sl, target, direction)

\* a forward scan that starts with the entry bar itself
simulate_trade_from_entry(d, entry_index, entry, sl, target, direction) ==
    SimulateFrom(d, entry_index + 1, DateOf(d[entry_index + 1].date), sl, target,
                 direction)

\* simulate_trade(df, entry_index, entry, sl, target, direction); entry_index is
\* 0-based as in the source, row entry_index is d[entry_index + 1]
simulate_trade(d, entry_index, entry, sl, target, direction) ==
    SimulateFrom(d, entry_index + 2, DateOf(d[entry_index + 1].date), sl, target,
                 direction)


\* a trade log that computes every PnL as that of a bullish trade
log_trade_as_bullish(entry_time, exit_time, direction, entry, sl, target, outcome, exit_price) ==
    [EntryTime |-> entry_time, ExitTime |-> exit_time, Direction |-> direction,
     Entry |-> entry, StopLoss |-> sl, Target |-> target, ExitPrice |-> exit_price,
     Outcome |-> outcome, Risk |-> Abs(entry - sl), Reward |-> Abs(target - entry),
     PnL |-> exit_price - entry]

\* log_trade(entry_time, exit_time, direction, entry, sl, target, outcome, exit_price)
log_trade(entry_time, exit_time, direction, entry, sl, target, outcome, exit_price) ==
    [EntryTime |-> entry_time, ExitTime |-> exit_time, Direction |-> direction,
     Entry |-> entry, StopLoss |-> sl, Target |-> target, ExitPrice |-> exit_price,
     Outcome |-> outcome, Risk |-> Abs(entry - sl), Reward |-> Abs(target - entry),
     PnL |-> IF direction = "CE" THEN exit_price - entry ELSE entry - exit_price]

\* a replay loop without one of its guards
NeverAfterEntryEnd(row) == FALSE
TradeNeverStillActive(until, row) == FALSE

\* the guards of the loop of run (lines 189-198)
DayCapReached(count) == count >= MAX_SL_PER_DAY
AfterEntryEnd(row) == TimeOfDay(row.date) >= ENTRY_END_TIME
TradeStillActive(until, row) == until # NoTime /\ row.date < until

\* an engine that enters on the trend alone
TrendOnlyEntry(row) == row.ema20 > row.ema30 /\ Abs(row.ema20 - row.ema30) >= 3 * Scale
\* the entry conditions of lines 201 and 215
BullishEntry(row) ==
    row.ema20 > row.ema30 /\ Abs(row.ema20 - row.ema30) >= 3 * Scale
    /\ bt_is_bullish_rejection(row, row.ema20, row.ema30)
BearishEntry(row) ==
    row.ema20 < row.ema30 /\ Abs(row.ema20 - row.ema30) >= 3 * Scale
    /\ bt_is_bearish_rejection(row, row.ema20, row.ema30)

\* daily_sl_count after the day check of lines 184-186
DayReset(counts, day, trade_day) ==
    IF day # trade_day
    THEN [d \in DOMAIN counts \cup {trade_day} |->
             IF d = trade_day THEN 0 ELSE counts[d]]
    ELSE counts

\* the replayed series: a warm-up in direction dir on the 5-minute grid ending at
\* ReplayStart, then the bars of news, each one either the next bar of the grid
\* or the first bar of the next day
ReplayShapes == {"rej", "deep", "wide"}
ReplayGaps == {"next", "nextday"}
ReplayStart == DAY + 14 * 60 + 40
ReplayBase(dir) == BasePrice + dir * Slope * (WARMUP - 1)
\* a rejection bar in the direction of the trend, a rejection bar with a longer
\* wick, a bar against the trend that closes at its extreme (at its low in an
\* uptrend, at its high in a downtrend), or a wide bar that qualifies for no
\* entry
ReplayBar(dir, t, shape) ==
    LET b == ReplayBase(dir)
    IN  IF shape = "rej"
        THEN IF dir = 1
             THEN Bar(t, b - 5 * Scale, b + 6 * Scale, b - 8 * Scale, b + 5 * Scale)
             ELSE Bar(t, b + 5 * Scale, b + 8 * Scale, b - 6 * Scale, b - 5 * Scale)
        ELSE IF shape = "deep"
        THEN IF dir = 1
             THEN Bar(t, b - 8 * Scale, b + 5 * Scale, b - 10 * Scale, b + 4 * Scale)
             ELSE Bar(t, b + 8 * Scale, b + 10 * Scale, b - 5 * Scale, b - 4 * Scale)
        ELSE IF shape = "shut"
        THEN IF dir = 1
             THEN Bar(t, b + 5 * Scale, b + 6 * Scale, b - 8 * Scale, b - 8 * Scale)
             ELSE Bar(t, b - 5 * Scale, b + 8 * Scale, b - 6 * Scale, b + 8 * Scale)
        ELSE Bar(t, b, b + 32 * Scale, b - 32 * Scale, b)

RECURSIVE ReplayTimes(_, _, _)
ReplayTimes(news, k, acc) ==
    IF k > Len(news) THEN acc
    ELSE ReplayTimes(news, k + 1,
            Append(acc, IF news[k].gap = "next" THEN Last(acc) + BAR_MINUTES
                        ELSE (DateOf(Last(acc)) + 1) * DAY + MARKET_OPEN))

ReplayBars(dir, news) ==
    LET times == ReplayTimes(news, 1, <<ReplayStart>>)
    IN  [i \in 1..(WARMUP + Len(news)) |->
            IF i <= WARMUP
            THEN LET c == BasePrice + dir * Slope * (i - 1)
                     o == c - dir * Slope
                 IN  Bar(ReplayStart - BAR_MINUTES * (WARMUP - i), o,
                         IF o > c THEN o ELSE c, IF o < c THEN o ELSE c, c)
            ELSE ReplayBar(dir, times[i - WARMUP + 1], news[i - WARMUP].shape)]

\* df with the columns ema20 and ema30 of lines 169-170
WithEma(bars) ==
    LET closes == [i \in 1..Len(bars) |-> bars[i].close]
        e20 == ewm_mean(closes, 15)
        e30 == ewm_mean(closes, 21)
    IN  [i \in 1..Len(bars) |->
            [date |-> bars[i].date, open |-> bars[i].open, high |-> bars[i].high,
             low |-> bars[i].low, close |-> bars[i].close,
             ema20 |-> e20[i], ema30 |-> e30[i]]]

RECURSIVE SeqsUpTo(_, _)
SeqsUpTo(S, n) ==
    IF n = 0 THEN {<<>>}
    ELSE SeqsUpTo(S, n - 1)
         \cup {Append(q, e) : q \in {r \in SeqsUpTo(S, n - 1) : Len(r) = n - 1}, e \in S}

InitReplay ==
    /\ rpc = "loop"
    /\ \E dir \in {1, 0 - 1} :
       \E news \in SeqsUpTo([shape : ReplayShapes, gap : ReplayGaps], MaxReplayBars) :
          df = WithEma(ReplayBars(dir, news))
    /\ ri = WARMUP
    /\ daily_sl_count = <<>>
    /\ current_day = NoTime
    /\ active_trade_until = NoTime
    /\ rtrades = <<>>
    /\ nifty_trades = <<>>
    /\ option_trades = <<>>
    /\ scanIn = NoScan
    /\ scanOut = <<>>

\* the trade of lines 205-213 (CE) or 219-226 (PE) entered at row i
ReplayTrade(d, i, direction) ==
    LET row == d[i + 1]
        entry == row.close
        sl == IF direction = "CE" THEN row.low ELSE row.high
        target == IF direction = "CE"
                  THEN entry + (RR_RATIO_TENTHS * (entry - sl)) \div 10
                  ELSE entry - (RR_RATIO_TENTHS * (sl - entry)) \div 10
        r == simulate_trade(d, i, entry, sl, target, direction)
    IN  log_trade(row.date, r.exit_time, direction, entry, sl, target, r.outcome,
                  r.exit_price)

\* one iteration of the loop "for i in range(30, len(df))" of run
ReplayStep ==
    /\ rpc = "loop"
    /\ ri < Len(df)
    /\ LET row == df[ri + 1]
           trade_day == DateOf(row.date)
           counts == DayReset(daily_sl_count, current_day, trade_day)
           direction == IF BullishEntry(row) THEN "CE"
                        ELSE IF BearishEntry(row) THEN "PE" ELSE "NONE"
       IN  /\ current_day' = trade_day
           /\ IF DayCapReached(counts[trade_day]) \/ AfterEntryEnd(row)
                 \/ TradeStillActive(active_trade_until, row) \/ direction = "NONE"
              THEN /\ daily_sl_count' = counts
                   /\ UNCHANGED <<active_trade_until, rtrades>>
              ELSE \E t \in {ReplayTrade(df, ri, direction)} :
                   /\ rtrades' = Append(rtrades, t)
                   /\ active_trade_until' = t.ExitTime
                   /\ daily_sl_count' =
                         IF t.Outcome = "SL_HIT"
                         THEN [counts EXCEPT ![trade_day] = @ + 1] ELSE counts
    /\ ri' = ri + 1
    /\ UNCHANGED <<rpc, df, nifty_trades, option_trades, scanIn, scanOut>>

\* the loop is over: export_csv
ReplayFinish ==
    /\ rpc = "loop"
    /\ ri >= Len(df)
    /\ rpc' = "done"
    /\ UNCHANGED <<df, ri, daily_sl_count, current_day, active_trade_until, rtrades,
                   nifty_trades, option_trades, scanIn, scanOut>>

\* no live loop runs
StrategyIdle ==
    /\ now = 0
    /\ ticks = 0
    /\ srvDir = 1
    /\ srvNew = <<>>
    /\ last_signal_candle_time = NoTime
    /\ last_processed_candle_time = NoTime
    /\ sl_count_today = 0
    /\ current_trade_active = FALSE
    /\ cached_closes = <<>>
    /\ ema15_cache = <<>>
    /\ ema21_cache = <<>>
    /\ processed_closed_trades = {}
    /\ evalLog = <<>>

LiveOff ==
    /\ pc = "off"
    /\ StrategyIdle
    /\ trades = <<>>
    /\ orders = <<>>
    /\ placed = <<>>

NextReplay ==
    \/ (ReplayStep /\ UNCHANGED <<liveVars, classVars>>)
    \/ (ReplayFinish /\ UNCHANGED <<liveVars, classVars>>)

InitReplayOnly == InitReplay /\ LiveOff /\ ClassOff
SpecReplay == InitReplayOnly /\ [][NextReplay]_vars

\* the replay of series that also hold bars closing at their extreme
InitReplayShut ==
    /\ rpc = "loop"
    /\ \E dir \in {1, 0 - 1} :
       \E news \in SeqsUpTo([shape : ReplayShapes \cup {"shut"}, gap : ReplayGaps],
                            MaxShutBars) :
          df = WithEma(ReplayBars(dir, news))
    /\ ri = WARMUP
    /\ daily_sl_count = <<>>
    /\ current_day = NoTime
    /\ active_trade_until = NoTime
    /\ rtrades = <<>>
    /\ nifty_trades = <<>>
    /\ option_trades = <<>>
    /\ scanIn = NoScan
    /\ scanOut = <<>>
    /\ LiveOff
    /\ ClassOff
SpecReplayShut == InitReplayShut /\ [][NextReplay]_vars

\* the repository's programs: the live loop, or the replay
Init == InitLiveOnly \/ InitReplayOnly
Next == NextLive \/ NextReplay
Spec == Init /\ [][Next]_vars

---------------------------------------------------------------------------
(* The OrderManager driven by any caller: every method, in any order, with  *)
(* every answer of the broker                                               *)

OmCalls == {"__init__", "enter_trade", "buy_option_trade", "monitor_trades",
            "monitor_buy_option_trades", "force_square_off_all"}

\* OrderManager.__init__
InitOM ==
    /\ pc = "__init__"
    /\ StrategyIdle
    /\ trades = <<>>
    /\ orders = <<>>
    /\ placed = <<>>
    /\ ReplayOff
    /\ ClassOff

\* the OrderManager after a call; an exception leaves the caller with what the
\* method had done before it
OmCommit(s, method) ==
    /\ pc' = method
    /\ trades' = s.trades
    /\ orders' = s.orders
    /\ placed' = s.placed
    /\ UNCHANGED <<now, ticks, srvDir, srvNew, last_signal_candle_time,
                   last_processed_candle_time, sl_count_today, current_trade_active,
                   cached_closes, ema15_cache, ema21_cache, processed_closed_trades,
                   evalLog>>

Directions == {"LONG", "SHORT", "FLAT"}
FutSymbol == [strike |-> 0, type |-> "FUT"]

OmEnterTrade ==
    /\ pc \in OmCalls
    /\ Len(trades) < MaxTrades
    /\ \E direction \in Directions : \E outcome \in OrderOutcomes :
       \E entry_price \in {50 * Scale, 60 * Scale} :
          OmCommit(enter_trade(Self, FutSymbol, QUANTITY, direction, entry_price,
                               IF direction = "SHORT" THEN 70 * Scale ELSE 40 * Scale,
                               IF direction = "SHORT" THEN 40 * Scale ELSE 70 * Scale,
                               outcome), "enter_trade")
    /\ quoted' = <<>>

OmBuyOption ==
    /\ pc \in OmCalls
    /\ Len(trades) < MaxTrades
    /\ \E outcome \in OrderOutcomes :
          OmCommit(buy_option_trade(Self, OptionSymbol(BasePrice, "UP"), QUANTITY,
                                    50 * Scale, 40 * Scale, 70 * Scale, outcome),
                   "buy_option_trade")
    /\ quoted' = <<>>

\* the quotes and the answers to exit orders are drawn for the OPEN trades; a
\* trade that is not OPEN would be quoted rest and its exit order accepted,
\* values the methods never ask for
OnAll(f, rest) == [i \in 1..Len(trades) |-> IF i \in DOMAIN f THEN f[i] ELSE rest]

OmMonitorTrades ==
    /\ pc \in OmCalls
    /\ \E q \in [OpenIdx(trades) -> Quotes] :
       \E x \in [OpenIdx(trades) -> OrderOutcomes] :
          /\ OmCommit(monitor_trades(Self, OnAll(q, 70 * Scale), OnAll(x, "id")),
                      "monitor_trades")
          /\ quoted' = q

OmMonitorBuyOption ==
    /\ pc \in OmCalls
    /\ \E q \in [OpenIdx(trades) -> Quotes] :
       \E x \in [OpenIdx(trades) -> OrderOutcomes] :
          /\ OmCommit(monitor_buy_option_trades(Self, OnAll(q, 70 * Scale),
                                                OnAll(x, "id")),
                      "monitor_buy_option_trades")
          /\ quoted' = q

OmForceSquareOff ==
    /\ pc \in OmCalls
    /\ \E x \in [OpenIdx(trades) -> OrderOutcomes] :
          OmCommit(force_square_off_all(Self, OnAll(x, "id")), "force_square_off_all")
    /\ quoted' = <<>>

NextOM ==
    \/ (OmEnterTrade /\ UNCHANGED <<replayVars, sample, verdict, env, calls>>)
    \/ (OmBuyOption /\ UNCHANGED <<replayVars, sample, verdict, env, calls>>)
    \/ (OmMonitorTrades /\ UNCHANGED <<replayVars, sample, verdict, env, calls>>)
    \/ (OmMonitorBuyOption /\ UNCHANGED <<replayVars, sample, verdict, env, calls>>)
    \/ (OmForceSquareOff /\ UNCHANGED <<replayVars, sample, verdict, env, calls>>)

SpecOM == InitOM /\ [][NextOM]_vars

---------------------------------------------------------------------------
(* The live futures loop: NiftyEMARejectionStrategy of                      *)
(* src/src/strategies/nifty_ema_rejection.py, with src/src/utils/indicators.py *)

FUT_QUANTITY == 50
FUT_MIN_CANDLES == 40
LOOKBACK == 5                   \* lookback: int = 5

\* atan(delta / lookback) >= pi / 6, that is delta / lookback >= 1 / sqrt(3)
AngleAtLeast30(delta) == delta > 0 /\ 3 * delta * delta >= LOOKBACK * LOOKBACK * Scale * Scale

\* ema_angle_is_up(ema_values)
ema_angle_is_up(ema_values) ==
    IF Len(ema_values) < LOOKBACK + 1 THEN FALSE
    ELSE AngleAtLeast30(FromEnd(ema_values, 1) - FromEnd(ema_values, LOOKBACK + 1))

\* ema_angle_is_down(ema_values)
ema_angle_is_down(ema_values) ==
    IF Len(ema_values) < LOOKBACK + 1 THEN FALSE
    ELSE AngleAtLeast30(FromEnd(ema_values, LOOKBACK + 1) - FromEnd(ema_values, 1))

\* is_bullish_rejection(candle, ema15, ema21) of the futures strategy
fut_is_bullish_rejection(candle, ema15, ema21) ==
    /\ candle.close - candle.open >= 10 * Scale
    /\ candle.close > candle.open
    /\ Min2(Abs(candle.low - ema15), Abs(candle.low - ema21)) <= 5 * Scale

\* is_bearish_rejection(candle, ema15, ema21) of the futures strategy
fut_is_bearish_rejection(candle, ema15, ema21) ==
    /\ candle.open - candle.close >= 10 * Scale
    /\ candle.open > candle.close
    /\ Min2(Abs(candle.high - ema15), Abs(candle.high - ema21)) <= 5 * Scale

\* the entry conditions of lines 191 and 195; emas is self.ema15_cache[:-1]
FutLongSignal(candle, ema15, ema21, emas) ==
    (ema15 > ema21 /\ ema_angle_is_up(emas))
    /\ fut_is_bullish_rejection(candle, ema15, ema21)
FutShortSignal(candle, ema15, ema21, emas) ==
    (ema15 < ema21 /\ ema_angle_is_down(emas))
    /\ fut_is_bearish_rejection(candle, ema15, ema21)

\* the outcomes of the gateway calls of an entry: _get_fut_ltp and place_order
FutLtpPrices == {20 * Scale, 80 * Scale}
FutQuotes == FutLtpPrices \cup {LtpNone, LtpRaise}
FutEntryInputs == [ltp : {50 * Scale, LtpRaise}, order : OrderOutcomes]
FutNoInput == [ltp |-> LtpRaise, order |-> "raise"]
FutEntryAnswers ==
    IF env.sound
    THEN {inp \in FutEntryInputs : inp.ltp # LtpRaise /\ inp.order # "raise"}
    ELSE FutEntryInputs

\* _enter_long_fut(signal_candle, prev_candle); _get_fut_ltp answers None when
\* the quote raises
FutEnterLong(self, signal_candle, prev_candle, inp) ==
    IF inp.ltp \in {LtpNone, LtpRaise} THEN [self EXCEPT !.ret = FALSE]
    ELSE LET fut_entry == inp.ltp
             underlying_entry == signal_candle.close
             sl_underlying == Min2(signal_candle.low, prev_candle.low)
             risk_points == underlying_entry - sl_underlying
             target_points == 2 * risk_points
         IN  IF risk_points <= 0 THEN [self EXCEPT !.ret = FALSE]
             ELSE enter_trade(self, FutSymbol, FUT_QUANTITY, "LONG", fut_entry,
                              fut_entry - risk_points, fut_entry + target_points,
                              inp.order)

\* _enter_short_fut(signal_candle, prev_candle)
FutEnterShort(self, signal_candle, prev_candle, inp) ==
    IF inp.ltp \in {LtpNone, LtpRaise} THEN [self EXCEPT !.ret = FALSE]
    ELSE LET fut_entry == inp.ltp
             underlying_entry == signal_candle.close
             sl_underlying == IF signal_candle.high >= prev_candle.high
                              THEN signal_candle.high ELSE prev_candle.high
             risk_points == sl_underlying - underlying_entry
             target_points == 2 * risk_points
         IN  IF risk_points <= 0 THEN [self EXCEPT !.ret = FALSE]
             ELSE enter_trade(self, FutSymbol, FUT_QUANTITY, "SHORT", fut_entry,
                              fut_entry + risk_points, fut_entry - target_points,
                              inp.order)

\* lines 177-197: the candle passed the guards and is evaluated; the two "if"
\* follow each other
FutEvaluateCandle(s3, signal_candle, prev_candle, signal_time, ema15, ema21, emas, inp) ==
    LET marked(e) == IF e.exc THEN e
                     ELSE [e EXCEPT !.last_signal_candle_time = signal_time]
        afterLong == IF FutLongSignal(signal_candle, ema15, ema21, emas)
                     THEN marked(FutEnterLong(s3, signal_candle, prev_candle, inp))
                     ELSE s3
    IN  IF afterLong.exc THEN afterLong
        ELSE IF FutShortSignal(signal_candle, ema15, ema21, emas)
        THEN marked(FutEnterShort(afterLong, signal_candle, prev_candle, inp))
        ELSE afterLong

\* line 174: the bar is not later than the bar of the last signal
FutSignalled(self, signal_time) ==
    self.last_signal_candle_time # NoTime /\ signal_time <= self.last_signal_candle_time

\* lines 147-175: the guards, on the strategy s1 whose caches are updated
FutGuardCandle(s1, candles, tnow, inp) ==
    IF Len(candles) < FUT_MIN_CANDLES THEN s1
    ELSE LET signal_candle == FromEnd(candles, 2)
             prev_candle == FromEnd(candles, 3)
             signal_time == signal_candle.date
             s2 == [s1 EXCEPT !.last_processed_candle_time = signal_time]
         IN  IF AlreadyProcessed(s1, signal_time) THEN s1
             ELSE IF ~CandleClosed(tnow, signal_time) \/ PastEntryEnd(tnow)
                     \/ FutSignalled(s1, signal_time)
             THEN s2
             ELSE FutEvaluateCandle(
                     [s2 EXCEPT !.evalLog = Append(@, signal_time)],
                     signal_candle, prev_candle, signal_time,
                     FromEnd(s1.ema15_cache, 2), FromEnd(s1.ema21_cache, 2),
                     SubSeq(s1.ema15_cache, 1, Len(s1.ema15_cache) - 1), inp)

\* _process_candles(candles, now) of the futures strategy
FutProcessCandles(self, candles, tnow, inp) ==
    FutGuardCandle(UpdateEmaCache(self, [i \in 1..Len(candles) |-> candles[i].close]),
                   candles, tnow, inp)

\* the series the gateway returns to the futures loop: the history reaches
\* further back, so that the first published bar makes FUT_MIN_CANDLES bars
FutExtra == FUT_MIN_CANDLES - 1 - WarmLen
FutFetchedCandles ==
    [i \in 1..FutExtra |-> WarmBar(srvDir, SrvLastWarm(now - ticks), i - FutExtra)]
    \o FetchedCandles

\* the futures process is started on day 1 at 14:50
FutScenarios ==
    {[start |-> DAY + 14 * 60 + 50, dir |-> 1],
     [start |-> DAY + 14 * 60 + 50, dir |-> 0 - 1]}

\* NiftyEMARejectionStrategy.__init__
InitFut ==
    /\ \E sc \in FutScenarios : now = sc.start /\ srvDir = sc.dir
    /\ ticks = 0
    /\ srvNew = <<>>
    /\ pc = "run"
    /\ last_signal_candle_time = NoTime
    /\ last_processed_candle_time = NoTime
    /\ sl_count_today = 0
    /\ current_trade_active = FALSE
    /\ cached_closes = <<>>
    /\ ema15_cache = <<>>
    /\ ema21_cache = <<>>
    /\ processed_closed_trades = {}
    /\ trades = <<>>
    /\ orders = <<>>
    /\ placed = <<>>
    /\ evalLog = <<>>
    /\ ReplayOff
    /\ ClassOff

\* one iteration of run() at or after FORCE_EXIT_TIME
FutForceExitCycle ==
    /\ pc = "run"
    /\ TimeOfDay(now) >= FORCE_EXIT_TIME
    /\ \E x \in [OpenIdx(trades) -> OrderAnswers] :
       \E s \in {force_square_off_all(Self, OnAll(x, "id"))} :
          IF s.exc THEN Commit(s, "crashed") ELSE Commit(s, "stopped")
    /\ UNCHANGED <<now, ticks, srvDir, srvNew>>

\* monitor_trades of line 108, after _process_candles left s1
FutMonitor(s1) ==
    IF s1.exc THEN Commit(s1, "crashed")
    ELSE \E q \in [OpenIdx(s1.trades) -> QuoteAnswers(FutQuotes)] :
         \E x \in [OpenIdx(s1.trades) -> OrderAnswers] :
         \E s2 \in {MonitorFrom(s1, 1, [i \in 1..Len(s1.trades) |->
                                           IF i \in DOMAIN q THEN q[i] ELSE LtpNone],
                                [i \in 1..Len(s1.trades) |->
                                    IF i \in DOMAIN x THEN x[i] ELSE "id"])} :
            IF s2.exc THEN Commit(s2, "crashed") ELSE Commit(s2, "run")

\* whether this call of _process_candles reaches an entry method
FutReachesEntry(self, candles, tnow) ==
    LET s == FutProcessCandles(self, candles, tnow, FutNoInput)
    IN  Len(s.evalLog) > Len(self.evalLog)
        /\ \/ FutLongSignal(FromEnd(candles, 2), FromEnd(s.ema15_cache, 2),
                            FromEnd(s.ema21_cache, 2),
                            SubSeq(s.ema15_cache, 1, Len(s.ema15_cache) - 1))
           \/ FutShortSignal(FromEnd(candles, 2), FromEnd(s.ema15_cache, 2),
                             FromEnd(s.ema21_cache, 2),
                             SubSeq(s.ema15_cache, 1, Len(s.ema15_cache) - 1))

\* one iteration of run() before FORCE_EXIT_TIME: fetch, process, monitor; the
\* fetch is not guarded, an exception of get_historical_candles ends run
FutPollCycle ==
    /\ pc = "run"
    /\ ~(TimeOfDay(now) >= FORCE_EXIT_TIME)
    /\ \/ ~env.sound /\ Commit(Self, "crashed")  \* _fetch_recent_candles raises
       \/ FutMonitor(Self)                      \* it returns an empty list
       \/ \E candles \in {FutFetchedCandles} :
          \E inp \in IF FutReachesEntry(Self, candles, now) THEN FutEntryAnswers
                     ELSE {FutNoInput} :
             FutMonitor(FutProcessCandles(Self, candles, now, inp))
    /\ UNCHANGED <<now, ticks, srvDir, srvNew>>

\* the futures loop is followed on bars that keep the shape they are published
\* with
NextFut ==
    \/ (Tick /\ UNCHANGED <<replayVars, classVars>>)
    \/ (SrvPublish /\ UNCHANGED <<replayVars, classVars>>)
    \/ (FutForceExitCycle /\ UNCHANGED <<replayVars, classVars>>)
    \/ (FutPollCycle /\ UNCHANGED <<replayVars, classVars>>)

SpecFut == InitFut /\ [][NextFut]_vars

---------------------------------------------------------------------------
(* The entry methods of the two live strategies, applied on their own to a  *)
(* strategy that holds no trade                                              *)

\* the option bar before the bar in progress: one with room between its low
\* and its close, one that closed at its low
EntryTriggers == {OptCandle(40, 50), OptCandle(50, 50)}
EntryFetches ==
    {[ok |-> FALSE, bars |-> <<>>]}
    \cup {[ok |-> TRUE, bars |-> <<c, OptCandle(45, 50)>>] : c \in EntryTriggers}
\* the quote of the option at the time of the entry: below, at and above the
\* close of the trigger bar
EntryLtps == {40 * Scale, 50 * Scale, 60 * Scale}
\* the NIFTY bars handed to the futures entries: the signal bar with its close
\* inside its range, at its low, at its high; the bar before it inside or
\* around the range of the signal bar
EntrySignalBars ==
    {Bar(5, BasePrice, BasePrice + 10 * Scale, BasePrice - 10 * Scale, BasePrice),
     Bar(5, BasePrice, BasePrice, BasePrice - 10 * Scale, BasePrice - 10 * Scale),
     Bar(5, BasePrice - 10 * Scale, BasePrice, BasePrice - 10 * Scale, BasePrice)}
EntryPrevBars ==
    {Bar(0, BasePrice, BasePrice, BasePrice - 5 * Scale, BasePrice - 5 * Scale),
     Bar(0, BasePrice, BasePrice + 20 * Scale, BasePrice - 20 * Scale, BasePrice)}
EntrySamples ==
    [inp : [token_ok : {TRUE}, opt : EntryFetches, ltp : EntryLtps \cup {LtpRaise},
            order : OrderOutcomes],
     signal_candle : EntrySignalBars, prev_candle : EntryPrevBars,
     fut : [ltp : {50 * Scale, LtpNone}, order : OrderOutcomes]]

InitEntry ==
    /\ pc = "__init__"
    /\ StrategyIdle
    /\ trades = <<>>
    /\ orders = <<>>
    /\ placed = <<>>
    /\ ReplayOff
    /\ sample \in EntrySamples
    /\ verdict = <<>>
    /\ quoted = <<>>
    /\ env = FaultyEnv
    /\ calls = <<>>

EntryLongCe ==
    /\ pc = "__init__"
    /\ Commit(EnterLongCe(Self, BasePrice, sample.inp), "_enter_long_ce")
    /\ UNCHANGED <<now, ticks, srvDir, srvNew>>

EntryLongFut ==
    /\ pc = "__init__"
    /\ Commit(FutEnterLong(Self, sample.signal_candle, sample.prev_candle, sample.fut),
              "_enter_long_fut")
    /\ UNCHANGED <<now, ticks, srvDir, srvNew>>

EntryShortFut ==
    /\ pc = "__init__"
    /\ Commit(FutEnterShort(Self, sample.signal_candle, sample.prev_candle, sample.fut),
              "_enter_short_fut")
    /\ UNCHANGED <<now, ticks, srvDir, srvNew>>

NextEntry ==
    \/ (EntryLongCe /\ UNCHANGED <<replayVars, classVars>>)
    \/ (EntryLongFut /\ UNCHANGED <<replayVars, classVars>>)
    \/ (EntryShortFut /\ UNCHANGED <<replayVars, classVars>>)

SpecEntry == InitEntry /\ [][NextEntry]_vars

---------------------------------------------------------------------------
(* The forward scans of the two replay engines, applied to any bars *)

\* intradayOptionsBacktestNifty.py, simulate_nifty_trade, lines 326-335
NiftyScanBar(candle, sl, target, direction) ==
    IF direction = "CE"
    THEN IF candle.high >= target THEN "TARGET_HIT"
         ELSE IF candle.low <= sl THEN "SL_HIT" ELSE "NONE"
    ELSE IF candle.low <= target THEN "TARGET_HIT"
         ELSE IF candle.high >= sl THEN "SL_HIT" ELSE "NONE"

RECURSIVE NiftyScanFrom(_, _, _, _, _, _)
\* the loop of simulate_nifty_trade from 1-based position j on
NiftyScanFrom(d, j, entry_date, sl, target, direction) ==
    IF j > Len(d)
    THEN [outcome |-> "EOD_EXIT", exit_price |-> Last(d).close]
    ELSE IF DateOf(d[j].date) # entry_date
    THEN [outcome |-> "EOD_EXIT", exit_price |-> d[j - 1].close]
    ELSE IF NiftyScanBar(d[j], sl, target, direction) = "TARGET_HIT"
    THEN [outcome |-> "TARGET_HIT", exit_price |-> target]
    ELSE IF NiftyScanBar(d[j], sl, target, direction) = "SL_HIT"
    THEN [outcome |-> "SL_HIT", exit_price |-> sl]
    ELSE NiftyScanFrom(d, j + 1, entry_date, sl, target, direction)

\* simulate_nifty_trade(start_index, entry, sl, target, direction) on nifty_df
simulate_nifty_trade(nifty_df, start_index, entry, sl, target, direction) ==
    NiftyScanFrom(nifty_df, start_index + 2, DateOf(nifty_df[start_index + 1].date),
                  sl, target, direction)

\* bars around the levels of a trade entered at 100 with its levels at 90 and
\* 110: each bar's extremes fall short of, touch or pass the levels, and each
\* bar closes one point above the bar before it
ScanEntry == 100 * Scale
ScanLower == 90 * Scale
ScanUpper == 110 * Scale
ScanBarKinds ==
    [low : {85 * Scale, ScanLower, 95 * Scale},
     high : {105 * Scale, ScanUpper, 115 * Scale}, gap : ReplayGaps]
ScanBars(news) ==
    LET times == ReplayTimes(news, 1, <<DAY + 10 * 60>>)
    IN  [i \in 1..(Len(news) + 1) |->
            IF i = 1 THEN Bar(times[1], ScanEntry, ScanEntry, ScanEntry, ScanEntry)
            ELSE Bar(times[i], ScanEntry, news[i - 1].high, news[i - 1].low,
                     ScanEntry + (i - 1) * Scale)]

\* a long trade entered at the close 110 of a bar with low 98, its target at
\* 110 + RR_RATIO * (110 - 98), followed by a bar with high 133
ScanExample ==
    [d |-> <<Bar(DAY + 10 * 60, 100 * Scale, 112 * Scale, 98 * Scale, 110 * Scale),
             Bar(DAY + 10 * 60 + BAR_MINUTES, 110 * Scale, 133 * Scale, 109 * Scale,
                 130 * Scale)>>,
     entry_index |-> 0, entry |-> 110 * Scale, sl |-> 98 * Scale,
     target |-> 110 * Scale + (RR_RATIO_TENTHS * (110 * Scale - 98 * Scale)) \div 10,
     direction |-> "CE"]

InitScan ==
    /\ LiveOff
    /\ rpc = "scan"
    /\ df = <<>>
    /\ ri = 0
    /\ daily_sl_count = <<>>
    /\ current_day = NoTime
    /\ active_trade_until = NoTime
    /\ rtrades = <<>>
    /\ nifty_trades = <<>>
    /\ option_trades = <<>>
    /\ \/ \E news \in SeqsUpTo(ScanBarKinds, MaxScanBars) :
          \E direction \in {"CE", "PE"} :
             scanIn = [d |-> ScanBars(news), entry_index |-> 0, entry |-> ScanEntry,
                       sl |-> IF direction = "CE" THEN ScanLower ELSE ScanUpper,
                       target |-> IF direction = "CE" THEN ScanUpper ELSE ScanLower,
                       direction |-> direction]
       \/ scanIn = ScanExample
    /\ scanOut = <<>>
    /\ ClassOff

Scanned(fn) == \E k \in 1..Len(scanOut) : scanOut[k].fn = fn

\* simulate_trade of the primary replay engine is applied to scanIn
ScanPrimary ==
    /\ rpc = "scan"
    /\ ~Scanned("simulate_trade")
    /\ \E r \in {simulate_trade(scanIn.d, scanIn.entry_index, scanIn.entry, scanIn.sl,
                                scanIn.target, scanIn.direction)} :
          scanOut' = Append(scanOut, [fn |-> "simulate_trade", outcome |-> r.outcome,
                                      exit_price |-> r.exit_price,
                                      exit_time |-> r.exit_time])
    /\ UNCHANGED <<rpc, df, ri, daily_sl_count, current_day, active_trade_until,
                   rtrades, nifty_trades, option_trades, scanIn>>

\* simulate_nifty_trade of the options replay engine is applied to scanIn
ScanOptions ==
    /\ rpc = "scan"
    /\ ~Scanned("simulate_nifty_trade")
    /\ \E r \in {simulate_nifty_trade(scanIn.d, scanIn.entry_index, scanIn.entry,
                                      scanIn.sl, scanIn.target, scanIn.direction)} :
          scanOut' = Append(scanOut, [fn |-> "simulate_nifty_trade",
                                      outcome |-> r.outcome,
                                      exit_price |-> r.exit_price])
    /\ UNCHANGED <<rpc, df, ri, daily_sl_count, current_day, active_trade_until,
                   rtrades, nifty_trades, option_trades, scanIn>>

NextScan ==
    \/ (ScanPrimary /\ UNCHANGED <<liveVars, classVars>>)
    \/ (ScanOptions /\ UNCHANGED <<liveVars, classVars>>)

SpecScan == InitScan /\ [][NextScan]_vars

\* the replay programs: the primary replay engine, or a forward scan on its own
InitBacktest == InitReplayOnly \/ InitScan
NextBacktest == NextReplay \/ NextScan
SpecBacktest == InitBacktest /\ [][NextBacktest]_vars

---------------------------------------------------------------------------
(* The rejection classifiers and the entry decisions of the repository,     *)
(* applied to any bar and any pair of EMA values                            *)

\* a test of the distance to the EMAs alone
near_ema_candle(candle, ema20, ema30) ==
    Min2(Min2(Abs(candle.low - ema20), Abs(candle.low - ema30)),
         Min2(Abs(candle.close - ema20), Abs(candle.close - ema30))) <= 5 * Scale

\* a classifier that measures the distance of the low to the fast EMA only
fast_ema_only_candle(candle, ema20, ema30) ==
    /\ candle.close - candle.open >= 10 * Scale
    /\ Abs(candle.low - ema20) <= 5 * Scale

\* src/src/utils/candle_utils.py, is_bullish_rejection_candle with its defaults
is_bullish_rejection_candle(candle, ema20, ema30) ==
    LET body == candle.close - candle.open
        d1 == Min2(Abs(candle.low - ema20), Abs(candle.low - ema30))
        d2 == Min2(Abs(candle.close - ema20), Abs(candle.close - ema30))
    IN  IF body < 10 * Scale THEN FALSE
        ELSE IF candle.close <= candle.open THEN FALSE
        ELSE Min2(d1, d2) <= 5 * Scale

\* src/src/utils/candle_utils.py, is_bearish_rejection_candle with its defaults
is_bearish_rejection_candle(candle, ema20, ema30) ==
    LET body == candle.open - candle.close
        d1 == Min2(Abs(candle.high - ema20), Abs(candle.high - ema30))
        d2 == Min2(Abs(candle.close - ema20), Abs(candle.close - ema30))
    IN  IF body < 10 * Scale THEN FALSE
        ELSE IF candle.close >= candle.open THEN FALSE
        ELSE Min2(d1, d2) <= 5 * Scale

\* is_bullish_rejection of intradayOptionsBacktestNifty.py; strategies/temp.py
\* has the same test
obt_is_bullish_rejection(candle, ema20, ema30) ==
    LET body == candle.close - candle.open
    IN  IF body < 10 * Scale THEN FALSE
        ELSE IF candle.close <= candle.open THEN FALSE
        ELSE Min2(Abs(candle.low - ema20), Abs(candle.low - ema30)) < 5 * Scale

\* is_bearish_rejection of intradayOptionsBacktestNifty.py; strategies/temp.py
\* has the same test
obt_is_bearish_rejection(candle, ema20, ema30) ==
    LET body == candle.open - candle.close
    IN  IF body < 10 * Scale THEN FALSE
        ELSE IF candle.close >= candle.open THEN FALSE
        ELSE Min2(Abs(candle.high - ema20), Abs(candle.high - ema30)) < 5 * Scale

\* the bar with its open and close exchanged
Swapped(candle) == [candle EXCEPT !.open = candle.close, !.close = candle.open]

\* the judged bars: bodies of 0 to 10 points up or down, wicks of 2 to 12 points;
\* the EMA pairs: 2, 3 and 4 points apart either way, or equal; the fast EMA 5
\* bars earlier: 3 points below, equal or 3 points above
SampleBars ==
    {Bar(DAY + 10 * 60, o * Scale,
         (IF o > c THEN o ELSE c) * Scale + uw * Scale,
         (IF o < c THEN o ELSE c) * Scale - lw * Scale, c * Scale) :
        o \in {100, 108, 110}, c \in {100, 102, 110}, uw \in {2, 5, 12},
        lw \in {2, 12}}
SamplePairs ==
    {<<104, 101>>, <<105, 101>>, <<104, 102>>, <<101, 104>>, <<107, 110>>,
     <<106, 110>>, <<110, 107>>, <<104, 104>>}
Samples ==
    {[candle |-> b, ema15 |-> p[1] * Scale, ema21 |-> p[2] * Scale,
      past15 |-> (p[1] + d) * Scale] :
        b \in SampleBars, p \in SamplePairs, d \in {0 - 3, 0, 3}}

InitClassify ==
    /\ LiveOff
    /\ ReplayOff
    /\ sample \in Samples
    /\ verdict = <<>>
    /\ quoted = <<>>
    /\ env = FaultyEnv
    /\ calls = <<>>

\* verdict with the result r of program fn
Judged(fn, r) ==
    /\ sample # NoSample
    /\ fn \notin DOMAIN verdict
    /\ verdict' = [f \in DOMAIN verdict \cup {fn} |-> IF f = fn THEN r ELSE verdict[f]]
    /\ UNCHANGED <<sample, quoted, env, calls>>

\* the live options strategy: its classifiers, its conditions of lines 185 and
\* 191, and the orders that lines 171-195 place for the bar
JudgeOptions ==
    \E inp \in IF LongSignal(sample.candle, sample.ema15, sample.ema21)
               THEN EntryInputs ELSE {NoInput} :
       Judged("options",
           [bullish |-> is_bullish_rejection(sample.candle, sample.ema15, sample.ema21),
            bearish |-> is_bearish_rejection(sample.candle, sample.ema15, sample.ema21),
            swapped |-> is_bullish_rejection(Swapped(sample.candle), sample.ema15,
                                             sample.ema21),
            long |-> LongSignal(sample.candle, sample.ema15, sample.ema21),
            short |-> ShortSignal(sample.candle, sample.ema15, sample.ema21),
            entries |-> Len(EvaluateCandle(Self, sample.candle, sample.candle.date,
                                           sample.ema15, sample.ema21,
                                           sample.candle.close, inp).placed)])

\* the primary replay engine: its classifiers and the if / elif of lines 201-226
JudgeReplay ==
    LET row == [date |-> sample.candle.date, open |-> sample.candle.open,
                high |-> sample.candle.high, low |-> sample.candle.low,
                close |-> sample.candle.close, ema20 |-> sample.ema15,
                ema30 |-> sample.ema21]
    IN  Judged("replay",
           [bullish |-> bt_is_bullish_rejection(row, row.ema20, row.ema30),
            bearish |-> bt_is_bearish_rejection(row, row.ema20, row.ema30),
            swapped |-> bt_is_bullish_rejection(Swapped(row), row.ema20, row.ema30),
            long |-> BullishEntry(row),
            short |-> ~BullishEntry(row) /\ BearishEntry(row),
            entries |-> IF BullishEntry(row) \/ BearishEntry(row) THEN 1 ELSE 0])

\* the live futures strategy: its classifiers, its conditions of lines 191 and
\* 195, and the orders that lines 177-197 place for the bar; ema15_cache[:-1]
\* ends with the bar's EMA and has the earlier value LOOKBACK places before it
JudgeFutures ==
    LET emas == <<sample.past15>> \o [i \in 1..(LOOKBACK - 1) |-> sample.ema15]
                \o <<sample.ema15>>
    IN  \E inp \in IF \/ FutLongSignal(sample.candle, sample.ema15, sample.ema21, emas)
                      \/ FutShortSignal(sample.candle, sample.ema15, sample.ema21, emas)
                   THEN FutEntryInputs ELSE {FutNoInput} :
           Judged("futures",
               [bullish |-> fut_is_bullish_rejection(sample.candle, sample.ema15,
                                                     sample.ema21),
                bearish |-> fut_is_bearish_rejection(sample.candle, sample.ema15,
                                                     sample.ema21),
                swapped |-> fut_is_bullish_rejection(Swapped(sample.candle),
                                                     sample.ema15, sample.ema21),
                long |-> FutLongSignal(sample.candle, sample.ema15, sample.ema21, emas),
                short |-> FutShortSignal(sample.candle, sample.ema15, sample.ema21,
                                         emas),
                entries |-> Len(FutEvaluateCandle(Self, sample.candle, sample.candle,
                                                  sample.candle.date, sample.ema15,
                                                  sample.ema21, emas, inp).placed)])

\* the classifiers of candle_utils.py
JudgeCandleUtils ==
    Judged("candle_utils",
        [bullish |-> is_bullish_rejection_candle(sample.candle, sample.ema15,
                                                 sample.ema21),
         bearish |-> is_bearish_rejection_candle(sample.candle, sample.ema15,
                                                 sample.ema21),
         swapped |-> is_bullish_rejection_candle(Swapped(sample.candle), sample.ema15,
                                                 sample.ema21)])

\* the classifiers of intradayOptionsBacktestNifty.py and strategies/temp.py
JudgeOptionsReplay ==
    Judged("options_replay",
        [bullish |-> obt_is_bullish_rejection(sample.candle, sample.ema15,
                                              sample.ema21),
         bearish |-> obt_is_bearish_rejection(sample.candle, sample.ema15,
                                              sample.ema21),
         swapped |-> obt_is_bullish_rejection(Swapped(sample.candle), sample.ema15,
                                              sample.ema21)])

NextClassify ==
    \/ (JudgeOptions /\ UNCHANGED <<liveVars, replayVars>>)
    \/ (JudgeReplay /\ UNCHANGED <<liveVars, replayVars>>)
    \/ (JudgeFutures /\ UNCHANGED <<liveVars, replayVars>>)
    \/ (JudgeCandleUtils /\ UNCHANGED <<liveVars, replayVars>>)
    \/ (JudgeOptionsReplay /\ UNCHANGED <<liveVars, replayVars>>)

SpecClassify == InitClassify /\ [][NextClassify]_vars

---------------------------------------------------------------------------
(* _update_ema_cache called with any series: each call hands it the closes  *)
(* of a fetched series that is longer than, as long as or shorter than the  *)
(* one before                                                               *)

ClosePrices == {100 * Scale, 110 * Scale}

\* NiftyEMARejectionStrategyOptions.__init__
InitCache ==
    /\ pc = "__init__"
    /\ StrategyIdle
    /\ trades = <<>>
    /\ orders = <<>>
    /\ placed = <<>>
    /\ ReplayOff
    /\ ClassOff

\* one call _update_ema_cache(closes); _process_candles is entered with a
\* series that is not empty (line 71); the calls are followed until the caches
\* have outgrown the longest series
CacheUpdate ==
    /\ pc \in {"__init__", "_update_ema_cache"}
    /\ Len(ema15_cache) <= MaxCloses
    /\ \E closes \in SeqsUpTo(ClosePrices, MaxCloses) \ {<<>>} :
          Commit(UpdateEmaCache(Self, closes), "_update_ema_cache")
    /\ UNCHANGED <<now, ticks, srvDir, srvNew>>

NextCache == CacheUpdate /\ UNCHANGED <<replayVars, classVars>>

SpecCache == InitCache /\ [][NextCache]_vars

---------------------------------------------------------------------------
(* src/src/Backtesting/intradayOptionsBacktestNifty.py: the NIFTY + options *)
(* replay engine                                                             *)

OBT_RR_RATIO == 2               \* RR_RATIO
\* slope20 is degrees(atan(diff(5) / 5)); it is at least 30 degrees when diff(5)
\* is at least 5 * tan(30 degrees) = 2.88675 points
SLOPE30_DIFF == 289

\* load_nifty: the columns ema20, ema30 of WithEma; slope20 holds diff(5) of
\* ema20, which is NaN for the first five rows (no comparison with NaN is true)
load_nifty(bars) ==
    LET d == WithEma(bars)
    IN  [i \in 1..Len(d) |->
            [date |-> d[i].date, open |-> d[i].open, high |-> d[i].high,
             low |-> d[i].low, close |-> d[i].close, ema20 |-> d[i].ema20,
             ema30 |-> d[i].ema30,
             slope20 |-> IF i > 5 THEN d[i].ema20 - d[i - 5].ema20 ELSE 0]]

\* atm_strike: round(price / 50) * 50, round taking a tie to the even multiple
atm_strike(price) ==
    LET step == 50 * Scale
        q == price \div step
        r == price % step
    IN  IF 2 * r < step THEN q * 50
        ELSE IF 2 * r > step THEN (q + 1) * 50
        ELSE IF q % 2 = 0 THEN q * 50 ELSE (q + 1) * 50

\* the setups of lines 119-123 and 127-131
LongSetup(row) ==
    row.ema20 > row.ema30 /\ row.slope20 >= SLOPE30_DIFF
    /\ obt_is_bullish_rejection(row, row.ema20, row.ema30)
ShortSetup(row) ==
    row.ema20 < row.ema30 /\ row.slope20 <= 0 - SLOPE30_DIFF
    /\ obt_is_bearish_rejection(row, row.ema20, row.ema30)

\* simulate_option_trade(df, entry, sl, target, direction): from the second row
RECURSIVE OptionScanFrom(_, _, _, _, _)
OptionScanFrom(d, i, sl, target, direction) ==
    IF i > Len(d) THEN [outcome |-> "EOD_EXIT", exit_price |-> Last(d).close]
    ELSE IF NiftyScanBar(d[i], sl, target, direction) = "TARGET_HIT"
    THEN [outcome |-> "TARGET_HIT", exit_price |-> target]
    ELSE IF NiftyScanBar(d[i], sl, target, direction) = "SL_HIT"
    THEN [outcome |-> "SL_HIT", exit_price |-> sl]
    ELSE OptionScanFrom(d, i + 1, sl, target, direction)

simulate_option_trade(d, entry, sl, target, direction) ==
    OptionScanFrom(d, 2, sl, target, direction)

\* what fetch_option_data gives for the option of a signal: no instrument of
\* that symbol or no row from the signal time on (an empty frame), a call of the
\* gateway that raises or returns no candle (df["date"] raises), or the rows,
\* dated from the signal time
OptionRow(t, l, h, c) == Bar(t, c * Scale, h * Scale, l * Scale, c * Scale)
OptionFrames ==
    {<<OptionRow(0, 40, 50, 50)>>,
     <<OptionRow(0, 40, 50, 50), OptionRow(5, 45, 75, 60)>>,
     <<OptionRow(0, 40, 50, 50), OptionRow(5, 35, 55, 40)>>}
OptionLegs ==
    {[kind |-> "empty", rows |-> <<>>], [kind |-> "raise", rows |-> <<>>]}
    \cup {[kind |-> "rows", rows |-> f] : f \in OptionFrames}

\* the engine after a call: its two logs, the arguments of the option scan the
\* call made, and whether the call raised
Engine ==
    [nifty_trades |-> nifty_trades, option_trades |-> option_trades, scan |-> NoScan,
     exc |-> FALSE]

\* process_signal(idx, direction); idx is 0-based, as in the source
process_signal(self, d, idx, direction, leg) ==
    LET row == d[idx + 1]
        atm == atm_strike(row.close)
        signal_time == row.date
        nifty_entry == row.close
        sl_nifty == IF direction = "CE" THEN row.low ELSE row.high
        target_nifty ==
            IF direction = "CE"
            THEN nifty_entry + OBT_RR_RATIO * (nifty_entry - sl_nifty)
            ELSE nifty_entry - OBT_RR_RATIO * (sl_nifty - nifty_entry)
        r == simulate_nifty_trade(d, idx, nifty_entry, sl_nifty, target_nifty, direction)
        nifty_pnl == IF direction = "CE" THEN r.exit_price - nifty_entry
                     ELSE nifty_entry - r.exit_price
        s1 == [self EXCEPT !.nifty_trades = Append(@,
                  [Time |-> signal_time,
                   Direction |-> IF direction = "CE" THEN "LONG" ELSE "SHORT",
                   NIFTY_Entry |-> nifty_entry, NIFTY_SL |-> sl_nifty,
                   NIFTY_Target |-> target_nifty, NIFTY_Exit |-> r.exit_price,
                   NIFTY_Outcome |-> r.outcome, NIFTY_PnL |-> nifty_pnl,
                   ATM_Strike |-> atm])]
    IN  IF leg.kind = "raise" THEN [s1 EXCEPT !.exc = TRUE]
        ELSE IF leg.kind = "empty" THEN s1
        ELSE LET option_df == leg.rows
                 opt_row == option_df[1]
                 opt_entry == opt_row.close
                 opt_sl == opt_row.low
                 opt_target == opt_entry + OBT_RR_RATIO * (opt_entry - opt_sl)
                 o == simulate_option_trade(option_df, opt_entry, opt_sl, opt_target,
                                            direction)
             IN  [s1 EXCEPT !.option_trades = Append(@,
                     [Time |-> signal_time + opt_row.date, Strike |-> atm,
                      Direction |-> direction, Entry |-> opt_entry, SL |-> opt_sl,
                      Target |-> opt_target, Exit |-> o.exit_price,
                      Outcome |-> o.outcome, PnL |-> o.exit_price - opt_entry]),
                             !.scan = [d |-> option_df, entry_index |-> 0,
                                       entry |-> opt_entry, sl |-> opt_sl,
                                       target |-> opt_target,
                                       direction |-> direction]]

InitOptionsReplay ==
    /\ rpc = "loop"
    /\ \E dir \in {1, 0 - 1} :
       \E news \in SeqsUpTo([shape : ReplayShapes, gap : ReplayGaps], MaxReplayBars) :
          df = load_nifty(ReplayBars(dir, news))
    /\ ri = WARMUP
    /\ daily_sl_count = <<>>
    /\ current_day = NoTime
    /\ active_trade_until = NoTime
    /\ rtrades = <<>>
    /\ nifty_trades = <<>>
    /\ option_trades = <<>>
    /\ scanIn = NoScan
    /\ scanOut = <<>>
    /\ LiveOff
    /\ ClassOff

\* one iteration of the loop "for i in range(30, len(self.nifty_df))" of run
OptionsReplayStep ==
    /\ rpc = "loop"
    /\ ri < Len(df)
    /\ LET row == df[ri + 1]
           direction == IF LongSetup(row) THEN "CE"
                        ELSE IF ShortSetup(row) THEN "PE" ELSE "NONE"
       IN  IF TimeOfDay(row.date) >= ENTRY_END_TIME \/ direction = "NONE"
           THEN /\ scanIn' = NoScan
                /\ UNCHANGED <<rpc, nifty_trades, option_trades>>
           ELSE \E leg \in OptionLegs :
                \E e \in {process_signal(Engine, df, ri, direction, leg)} :
                   /\ nifty_trades' = e.nifty_trades
                   /\ option_trades' = e.option_trades
                   /\ scanIn' = e.scan
                   /\ rpc' = IF e.exc THEN "crashed" ELSE rpc
    /\ ri' = ri + 1
    /\ UNCHANGED <<df, daily_sl_count, current_day, active_trade_until, rtrades,
                   scanOut>>

\* the loop is over: export_csvs
OptionsReplayFinish ==
    /\ rpc = "loop"
    /\ ri >= Len(df)
    /\ rpc' = "done"
    /\ UNCHANGED <<df, ri, daily_sl_count, current_day, active_trade_until, rtrades,
                   nifty_trades, option_trades, scanIn, scanOut>>

NextOptionsReplay ==
    \/ (OptionsReplayStep /\ UNCHANGED <<liveVars, classVars>>)
    \/ (OptionsReplayFinish /\ UNCHANGED <<liveVars, classVars>>)

SpecOptionsReplay == InitOptionsReplay /\ [][NextOptionsReplay]_vars

---------------------------------------------------------------------------
(* Properties *)

\* the entry orders among the calls p of a step, and the exit orders for trade i
EntryCalls(p) == {k \in 1..Len(p) : p[k].trade = 0}
ExitCalls(p, i) == {k \in 1..Len(p) : p[k].trade = i}
Terminal(trade) == trade.status \in {"TARGET_HIT", "SL_HIT", "FORCE_EXIT"}
\* the rows of df the replay loop has been through (1-based places)
RowsDone == (WARMUP + 1)..ri
Qualifies(row) == BullishEntry(row) \/ BearishEntry(row)
\* SL_HIT trades entered on a day among the first n logged trades
SlHitsOn(day, n) ==
    Cardinality({i \in 1..n : /\ rtrades[i].Outcome = "SL_HIT"
                              /\ DateOf(rtrades[i].EntryTime) = day})

\* C1: in the live options loop, in every reachable state, at most one trade of
\* OrderManager.trades has status OPEN.
C1_SingleOpenTrade == Cardinality(OpenIdx(trades)) <= 1
\* a second trade is OPEN after a first one was closed
C1_Witness ==
    /\ pc = "run"
    /\ Len(trades) >= 2
    /\ Cardinality(OpenIdx(trades)) = 1

\* C2: in the primary replay engine, each logged trade's entry bar time is at or
\* after the exit time of the trade logged before it, and no two logged trades
\* are entered on the same bar.
C2_TradesNeverOverlap ==
    /\ \A i \in 2..Len(rtrades) : rtrades[i].EntryTime >= rtrades[i - 1].ExitTime
    /\ \A i, j \in 1..Len(rtrades) :
          i # j => rtrades[i].EntryTime # rtrades[j].EntryTime
\* a bar that qualifies for an entry lay inside the first trade and was passed
\* over, and a second trade was logged later
C2_Witness ==
    /\ Len(rtrades) >= 2
    /\ \E k \in RowsDone :
          /\ Qualifies(df[k])
          /\ ~AfterEntryEnd(df[k])
          /\ rtrades[1].EntryTime < df[k].date
          /\ df[k].date < rtrades[1].ExitTime

\* C3, replay: no trade is logged with an entry bar on a day that already has 2
\* SL_HIT trades, and the day's count is the number of SL_HIT trades entered on
\* that day (it starts from 0 on each new day).
C3_ReplayCap ==
    /\ \A k \in 1..Len(rtrades) :
          SlHitsOn(DateOf(rtrades[k].EntryTime), k - 1) < MAX_SL_PER_DAY
    /\ (rpc = "loop" /\ current_day # NoTime) =>
          daily_sl_count[current_day] = SlHitsOn(current_day, Len(rtrades))
\* C3: once 2 trades have ended SL_HIT in a day no further entry is made that
\* day: the live loop places no order in a cycle that starts with
\* sl_count_today >= 2, and the replay logs no trade on that day after its
\* second SL_HIT, counting again from 0 on the next day.
C3_NoEntryAfterTwoStops ==
    [][/\ (sl_count_today >= MAX_SL_PER_DAY => placed' = <<>>)
       /\ C3_ReplayCap']_vars
\* replay: a day had 2 SL_HIT trades, a later bar of that day qualified before
\* the entry cutoff and was passed over, and a trade was entered the next day
C3_Witness ==
    \E a \in 1..Len(rtrades) :
       LET day == DateOf(rtrades[a].EntryTime)
       IN  /\ SlHitsOn(day, Len(rtrades)) = MAX_SL_PER_DAY
           /\ \E k \in RowsDone :
                 /\ DateOf(df[k].date) = day
                 /\ Qualifies(df[k])
                 /\ ~AfterEntryEnd(df[k])
                 /\ \A i \in 1..Len(rtrades) : rtrades[i].EntryTime # df[k].date
                 /\ \A i \in 1..Len(rtrades) :
                       DateOf(rtrades[i].EntryTime) = day
                           => rtrades[i].ExitTime <= df[k].date
           /\ \E b \in 1..Len(rtrades) : DateOf(rtrades[b].EntryTime) > day

\* the bars after the entry bar that end a scan of scanIn: a bar of another day,
\* or a bar that breaches a level
BreachesTarget(bar) ==
    IF scanIn.direction = "CE" THEN bar.high >= scanIn.target
    ELSE bar.low <= scanIn.target
BreachesStop(bar) ==
    IF scanIn.direction = "CE" THEN bar.low <= scanIn.sl
    ELSE bar.high >= scanIn.sl
Deciding ==
    {j \in 2..Len(scanIn.d) :
        \/ DateOf(scanIn.d[j].date) # DateOf(scanIn.d[1].date)
        \/ BreachesTarget(scanIn.d[j]) \/ BreachesStop(scanIn.d[j])}
\* the scan meets, on the entry day, a bar that breaches both levels before any
\* bar that ends it
BothBreached ==
    /\ Deciding # {}
    /\ \E j \in Deciding :
          /\ \A i \in Deciding : j <= i
          /\ DateOf(scanIn.d[j].date) = DateOf(scanIn.d[1].date)
          /\ BreachesTarget(scanIn.d[j])
          /\ BreachesStop(scanIn.d[j])

\* C4: in simulate_trade and simulate_nifty_trade, when the bar that ends the
\* scan breaches both the target and the stop, the outcome is TARGET_HIT and the
\* exit price is the target.
C4_TargetPriority ==
    BothBreached =>
        \A k \in 1..Len(scanOut) :
            scanOut[k].outcome = "TARGET_HIT" /\ scanOut[k].exit_price = scanIn.target
\* both scans were applied to a short trade whose first bar after entry breaches
\* both levels
C4_Witness ==
    /\ BothBreached
    /\ scanIn.direction = "PE"
    /\ Scanned("simulate_trade")
    /\ Scanned("simulate_nifty_trade")

\* C5: once a trade's status is TARGET_HIT, SL_HIT or FORCE_EXIT, no call of
\* monitor_trades, monitor_buy_option_trades or force_square_off_all changes
\* the trade or places an exit order for it.
C5_TerminalTradeImmutable ==
    [][\A i \in 1..Len(trades) :
          Terminal(trades[i]) =>
              /\ i <= Len(trades')
              /\ trades'[i] = trades[i]
              /\ ExitCalls(placed', i) = {}]_vars
\* monitor_trades has just been called on a trade that was closed by a forced
\* exit before the call
C5_Witness ==
    /\ pc = "monitor_trades"
    /\ \E i \in 1..Len(trades) :
          /\ trades[i].status = "FORCE_EXIT"
          /\ ExitCalls(placed, i) = {}

\* C6: when run has ended at or after the forced-exit cutoff 15:15, by its break
\* or by an exception of the forced exit, no trade of OrderManager.trades is
\* OPEN.
C6_NoOpenTradeAfterStop ==
    (pc \in {"stopped", "crashed"} /\ TimeOfDay(now) >= FORCE_EXIT_TIME)
        => OpenIdx(trades) = {}

\* C7, replay: no logged trade has an entry bar at or after 15:00.
C7_ReplayCutoff ==
    \A i \in 1..Len(rtrades) : TimeOfDay(rtrades[i].EntryTime) < ENTRY_END_TIME
\* C7: the live loop places no entry order in a cycle at or after 15:00 and the
\* replay logs no trade entered on a bar at or after 15:00.
C7_NoEntryAfterCutoff ==
    [][/\ (TimeOfDay(now) >= ENTRY_END_TIME => EntryCalls(placed') = {})
       /\ C7_ReplayCutoff']_vars
\* live: between 15:00 and 15:15 the monitoring closed an OPEN trade at its
\* target or stop
C7_Witness ==
    /\ pc = "run"
    /\ TimeOfDay(now) >= ENTRY_END_TIME
    /\ TimeOfDay(now) < FORCE_EXIT_TIME
    /\ \E i \in 1..Len(trades) :
          /\ ExitCalls(placed, i) # {}
          /\ trades[i].status \in {"TARGET_HIT", "SL_HIT"}

\* C8: the bar the live loop evaluates is the second-to-last bar of the fetched
\* series, not the last one, and it is evaluated only in a cycle where
\* now >= bar start + 5 minutes.
C8_OnlyClosedBars ==
    [][evalLog' # evalLog =>
          /\ Len(FetchedCandles) >= 2
          /\ evalLog' = Append(evalLog, FromEnd(FetchedCandles, 2).date)
          /\ FromEnd(FetchedCandles, 2).date # Last(FetchedCandles).date
          /\ now >= FromEnd(FetchedCandles, 2).date + BAR_MINUTES]_vars
\* a bar was evaluated earlier, and the second-to-last bar of the series now
\* fetched was looked at before its close and passed over
C8_Witness ==
    /\ pc = "run"
    /\ Len(evalLog) >= 1
    /\ last_processed_candle_time = FromEnd(FetchedCandles, 2).date
    /\ now < last_processed_candle_time + BAR_MINUTES
    /\ \A k \in 1..Len(evalLog) : evalLog[k] # last_processed_candle_time

C10_CacheEqualsScratch ==
    /\ ema15_cache = ema(cached_closes, 15)
    /\ ema21_cache = ema(cached_closes, 21)

\* C11: after every call of _update_ema_cache, whatever the lengths of the series
\* it is called with, ema15_cache, ema21_cache and cached_closes have the same
\* length.
C11_CacheLengths ==
    /\ Len(ema15_cache) = Len(ema21_cache)
    /\ Len(ema21_cache) = Len(cached_closes)

\* the programs that take an entry decision, and the judged bar
Deciders == {"options", "replay", "futures"}
Green(candle) == candle.close > candle.open
Red(candle) == candle.close < candle.open

\* C12: in every classifier variant (live options, primary replay, futures,
\* candle_utils, options replay and temp) the bullish predicate holds only for a
\* bar with close > open and the bearish one only for a bar with close < open,
\* and the bullish predicate is false for a bullish bar with its open and close
\* exchanged.
C12_Directionality ==
    \A f \in DOMAIN verdict :
        /\ verdict[f].bullish => Green(sample.candle)
        /\ verdict[f].bearish => Red(sample.candle)
        /\ verdict[f].bullish => ~verdict[f].swapped
\* every variant was applied to a bar that each of them classifies bullish
C12_Witness ==
    /\ DOMAIN verdict = Deciders \cup {"candle_utils", "options_replay"}
    /\ \A f \in DOMAIN verdict : verdict[f].bullish

\* C13: the classifiers of the live options strategy and of the primary replay
\* engine return false against the trend: bullish is false when the fast EMA is
\* below the slow one, bearish is false when it is above.
C13_TrendGate ==
    \A f \in DOMAIN verdict \cap {"options", "replay"} :
        /\ sample.ema15 < sample.ema21 => ~verdict[f].bullish
        /\ sample.ema15 > sample.ema21 => ~verdict[f].bearish

\* C14: for every bar and EMA pair the live options strategy and the primary
\* replay engine take the same entry decision (long, short or none).
C14_SameDecision ==
    {"options", "replay"} \subseteq DOMAIN verdict =>
        /\ verdict["options"].long = verdict["replay"].long
        /\ verdict["options"].short = verdict["replay"].short

\* C15: for no bar and EMA pair are the long and the short condition of a live
\* loop both true, and the evaluation of one bar places at most one entry order.
C15_OneDirection ==
    \A f \in DOMAIN verdict \cap {"options", "futures"} :
        /\ ~(verdict[f].long /\ verdict[f].short)
        /\ verdict[f].entries <= 1
\* both live loops evaluated a bar for which each placed its long entry order
C15_Witness ==
    /\ {"options", "futures"} \subseteq DOMAIN verdict
    /\ verdict["options"].long /\ verdict["options"].entries = 1
    /\ verdict["futures"].long /\ verdict["futures"].entries = 1

\* whether a bar reaches the target or the stop of a trade in direction dir
ReachesTarget(bar, target, dir) ==
    IF dir = "CE" THEN bar.high >= target ELSE bar.low <= target
ReachesStop(bar, sl, dir) ==
    IF dir = "CE" THEN bar.low <= sl ELSE bar.high >= sl
\* the places of d after place e whose bars lie on the day of d[e] with no bar
\* of another day between
SameDayAfter(d, e) ==
    {j \in (e + 1)..Len(d) :
        \A i \in (e + 1)..j : DateOf(d[i].date) = DateOf(d[e].date)}
\* the last bar of the day of d[e]
LastOfDay(d, e) ==
    CHOOSE j \in SameDayAfter(d, e) \cup {e} :
        \A i \in SameDayAfter(d, e) : i <= j
\* the place in df of the bar with time t
RowAt(t) == CHOOSE i \in 1..Len(df) : df[i].date = t
\* a result (outcome, exit price, exit time or NoTime when the scan returns none)
\* of a scan of d for a trade entered at place e is an exit on the entry day
ExitsOnEntryDay(d, e, sl, target, dir, outcome, exit_price, exit_time) ==
    /\ exit_time # NoTime => DateOf(exit_time) = DateOf(d[e].date)
    /\ outcome = "TARGET_HIT" =>
          \E j \in SameDayAfter(d, e) : ReachesTarget(d[j], target, dir)
    /\ outcome = "SL_HIT" =>
          \E j \in SameDayAfter(d, e) : ReachesStop(d[j], sl, dir)
    /\ (\A j \in SameDayAfter(d, e) :
           ~ReachesTarget(d[j], target, dir) /\ ~ReachesStop(d[j], sl, dir))
       => /\ outcome = "EOD_EXIT"
          /\ exit_price = d[LastOfDay(d, e)].close
          /\ exit_time # NoTime => exit_time = d[LastOfDay(d, e)].date

\* C16: every trade simulated by simulate_trade or simulate_nifty_trade exits on
\* the day of its entry bar: a target or stop outcome comes from a bar of the
\* entry day that no bar of another day precedes, and when no such bar reaches a
\* level the outcome is EOD_EXIT at the close of the last bar of the entry day.
C16_ExitOnEntryDay ==
    /\ \A k \in 1..Len(scanOut) :
          ExitsOnEntryDay(scanIn.d, 1, scanIn.sl, scanIn.target, scanIn.direction,
                          scanOut[k].outcome, scanOut[k].exit_price,
                          IF scanOut[k].fn = "simulate_trade"
                          THEN scanOut[k].exit_time ELSE NoTime)
    /\ \A k \in 1..Len(rtrades) :
          ExitsOnEntryDay(df, RowAt(rtrades[k].EntryTime), rtrades[k].StopLoss,
                          rtrades[k].Target, rtrades[k].Direction,
                          rtrades[k].Outcome, rtrades[k].ExitPrice,
                          rtrades[k].ExitTime)
\* both scans were applied to a trade whose entry day ends with a bar that
\* reaches no level and whose next bar, on the next day, reaches the target
C16_Witness ==
    /\ Scanned("simulate_trade")
    /\ Scanned("simulate_nifty_trade")
    /\ Len(scanIn.d) = 3
    /\ SameDayAfter(scanIn.d, 1) = {2}
    /\ ~BreachesTarget(scanIn.d[2]) /\ ~BreachesStop(scanIn.d[2])
    /\ BreachesTarget(scanIn.d[3])

\* a TARGET_HIT or SL_HIT result of simulate_trade on d for a trade entered at
\* place e exits at the first bar after e that reaches a level, at that level
ExitsAtFirstBreach(d, e, sl, target, dir, outcome, exit_price, exit_time) ==
    outcome \in {"TARGET_HIT", "SL_HIT"} =>
        \E j \in SameDayAfter(d, e) :
            /\ j > e
            /\ exit_time = d[j].date
            /\ \A i \in (e + 1)..(j - 1) :
                  ~ReachesTarget(d[i], target, dir) /\ ~ReachesStop(d[i], sl, dir)
            /\ IF outcome = "TARGET_HIT"
               THEN ReachesTarget(d[j], target, dir) /\ exit_price = target
               ELSE ReachesStop(d[j], sl, dir) /\ exit_price = sl

\* C17: a TARGET_HIT or SL_HIT trade of simulate_trade exits at the first bar
\* strictly after the entry bar, on the entry day, that reaches target or stop,
\* at the target or the stop; the entry bar is not looked at; the long trade
\* entered at 110 with stop 98 and target 132.8 followed by a bar with high 133
\* is a TARGET_HIT at 132.8.
C17_FirstBreachExit ==
    /\ \A k \in 1..Len(scanOut) :
          scanOut[k].fn = "simulate_trade" =>
              /\ ExitsAtFirstBreach(scanIn.d, 1, scanIn.sl, scanIn.target,
                                    scanIn.direction, scanOut[k].outcome,
                                    scanOut[k].exit_price, scanOut[k].exit_time)
              /\ scanIn = ScanExample =>
                    /\ scanOut[k].outcome = "TARGET_HIT"
                    /\ scanOut[k].exit_price = 13280
    /\ \A k \in 1..Len(rtrades) :
          ExitsAtFirstBreach(df, RowAt(rtrades[k].EntryTime), rtrades[k].StopLoss,
                             rtrades[k].Target, rtrades[k].Direction,
                             rtrades[k].Outcome, rtrades[k].ExitPrice,
                             rtrades[k].ExitTime)
\* simulate_trade was applied to a trade whose first bar after the entry reaches
\* no level and whose second bar, on the entry day, reaches the stop only
C17_Witness ==
    /\ \E k \in 1..Len(scanOut) :
          scanOut[k].fn = "simulate_trade" /\ scanOut[k].outcome = "SL_HIT"
    /\ Len(scanIn.d) = 3
    /\ SameDayAfter(scanIn.d, 1) = {2, 3}
    /\ ~BreachesTarget(scanIn.d[2]) /\ ~BreachesStop(scanIn.d[2])
    /\ BreachesStop(scanIn.d[3]) /\ ~BreachesTarget(scanIn.d[3])

\* the step placed an entry order that the broker did not accept
EntryRejected(p) == \E k \in EntryCalls(p) : p[k].result # "id"

\* C18: a poll cycle of the live options loop whose entry order is rejected
\* (place_market_order raises or returns no id) appends no trade and leaves
\* current_trade_active false.
C18_RejectedEntryLeavesNoLock ==
    [][(pc' = "run" /\ EntryRejected(placed'))
       => /\ Len(trades') = Len(trades)
          /\ ~current_trade_active']_vars

\* C19: a poll cycle of the live options loop that starts with an OPEN trade
\* under the trade lock and places no order does not end the loop: a quote
\* that cannot be fetched for the trade is not fatal.
C19_QuoteFailureNotFatal ==
    [][(pc = "run" /\ current_trade_active /\ OpenIdx(trades) # {})
       => ~(pc' = "crashed" /\ placed' = <<>>)]_vars

\* C20: a poll cycle of a live loop that starts with no OPEN trade and places
\* no order does not end the loop: a bar fetch that fails is skipped.
C20_FetchFailureSkipsCycle ==
    [][(pc = "run" /\ OpenIdx(trades) = {})
       => ~(pc' = "crashed" /\ placed' = <<>>)]_vars

\* C29: in the live futures loop no entry order is placed while an earlier
\* trade of the OrderManager is OPEN, so at most one trade is OPEN.
C29_FutSingleOpenTrade ==
    /\ Cardinality(OpenIdx(trades)) <= 1
    /\ \A i \in OpenIdx(trades) : i = Len(trades) \/ EntryCalls(placed) = {}

\* the poll cycle evaluated a closed bar that shows a bearish rejection in a
\* downtrend: the bar passed the trade lock, the SL cap and the entry cutoff
EvaluatedShortSignal ==
    /\ pc = "run"
    /\ Len(evalLog') = Len(evalLog) + 1
    /\ ShortSignal(SignalCandle(FetchedCandles), FromEnd(ema15_cache', 2),
                   FromEnd(ema21_cache', 2))

\* C30: in the live options loop a closed bar evaluated with a downtrend and a
\* bearish rejection leads to a buy order for a put option and, when the order
\* is accepted, to one new OPEN trade, and the loop continues.
C30_ShortSignalBuysPut ==
    [][EvaluatedShortSignal
       => /\ pc' = "run"
          /\ \E k \in EntryCalls(placed') :
                /\ placed'[k].symbol.type = "PE"
                /\ placed'[k].side = "BUY"
                /\ placed'[k].result = "id" => Len(trades') = Len(trades) + 1]_vars

\* the bar {open 100, high 112, low 98, close 110} judged against a fast EMA of
\* 104 and a slow EMA of 101
ExampleSample ==
    /\ sample.candle.open = 100 * Scale
    /\ sample.candle.high = 112 * Scale
    /\ sample.candle.low = 98 * Scale
    /\ sample.candle.close = 110 * Scale
    /\ sample.ema15 = 104 * Scale
    /\ sample.ema21 = 101 * Scale

\* C25: for the bar {open 100, high 112, low 98, close 110} with fast EMA 104 and
\* slow EMA 101 the bullish predicate is true and the bearish predicate false in
\* the live options classifier, the replay classifier and the candle_utils
\* classifier.
C25_ExampleBar ==
    ExampleSample =>
        \A f \in DOMAIN verdict \cap {"options", "replay", "candle_utils"} :
            verdict[f].bullish /\ ~verdict[f].bearish
\* the three classifiers were applied to the bar of the example
C25_Witness ==
    /\ ExampleSample
    /\ {"options", "replay", "candle_utils"} \subseteq DOMAIN verdict

\* the trades of the OrderManager with a given status
WithStatus(st) == {i \in 1..Len(trades) : trades[i].status = st}

\* C23: in the live options loop, at the end of every loop iteration
\* sl_count_today equals the number of trades of OrderManager.trades whose
\* status is SL_HIT; TARGET_HIT and FORCE_EXIT trades are not counted.
C23_SlCountMatches ==
    pc \in {"run", "stopped"} => sl_count_today = Cardinality(WithStatus("SL_HIT"))
\* the loop runs after one trade was stopped out and another reached its target
C23_Witness ==
    /\ pc = "run"
    /\ sl_count_today = 1
    /\ WithStatus("SL_HIT") # {}
    /\ WithStatus("TARGET_HIT") # {}

\* the status the monitoring rule gives an OPEN trade observed at price ltp
ExpectedStatus(trade, ltp) ==
    IF trade.entry_transaction_type = "BUY"
    THEN IF ltp >= trade.target THEN "TARGET_HIT"
         ELSE IF ltp <= trade.stop_loss THEN "SL_HIT" ELSE "OPEN"
    ELSE IF ltp <= trade.target THEN "TARGET_HIT"
         ELSE IF ltp >= trade.stop_loss THEN "SL_HIT" ELSE "OPEN"
\* the monitoring call just made got a price for OPEN trade i: no exception
\* ended the call at an earlier trade
Observed(i) ==
    /\ i \in OpenIdx(trades)
    /\ quoted'[i] \notin {LtpNone, LtpRaise}
    /\ \A j \in OpenIdx(trades) :
          j < i => /\ quoted'[j] # LtpRaise
                   /\ \A k \in ExitCalls(placed', j) : placed'[k].result # "raise"
\* what a monitoring call does with an observed trade
FollowsRule(i) ==
    LET expected == ExpectedStatus(trades[i], quoted'[i])
    IN  IF expected = "OPEN"
        THEN trades'[i].status = "OPEN" /\ ExitCalls(placed', i) = {}
        ELSE /\ Cardinality(ExitCalls(placed', i)) = 1
             /\ \A k \in ExitCalls(placed', i) :
                   IF placed'[k].result = "id"
                   THEN trades'[i].status = expected
                   ELSE trades'[i].status = "OPEN"

\* C24: on each price observation of an OPEN trade in monitor_trades, a bought
\* trade becomes TARGET_HIT iff ltp >= target, otherwise SL_HIT iff
\* ltp <= stop_loss, otherwise stays OPEN; a sold trade becomes TARGET_HIT iff
\* ltp <= target, otherwise SL_HIT iff ltp >= stop_loss, otherwise stays OPEN,
\* given that the exit order is accepted; monitor_buy_option_trades applies the
\* rule of a bought trade to the OPTION_BUY trades.
C24_MonitorRule ==
    [][/\ pc' = "monitor_trades" =>
             \A i \in 1..Len(trades) : Observed(i) => FollowsRule(i)
       /\ pc' = "monitor_buy_option_trades" =>
             \A i \in 1..Len(trades) :
                 (Observed(i) /\ trades[i].trade_type = "OPTION_BUY")
                     => FollowsRule(i)]_vars
\* monitor_trades closed a sold trade at its stop and a sold trade at its target
C24_Witness ==
    /\ pc = "monitor_trades"
    /\ \E i \in 1..Len(trades) :
          /\ trades[i].direction = "SHORT"
          /\ trades[i].status = "SL_HIT"
          /\ quoted[i] >= trades[i].stop_loss

\* C27: when the API key or the secret is missing at startup, main returns
\* before authentication: no session is opened, no strategy object is created,
\* the loop is never started and no order or quote call is made.
C27_NoStartWithoutCredentials ==
    (~env.KITE_API_KEY \/ ~env.KITE_API_SECRET)
        => /\ pc \in {"main", "returned"}
           /\ calls = <<>>
           /\ placed = <<>> /\ orders = <<>> /\ trades = <<>>
           /\ evalLog = <<>> /\ cached_closes = <<>>
\* main returned with the key present and the secret missing
C27_Witness ==
    /\ pc = "returned"
    /\ env.KITE_API_KEY
    /\ ~env.KITE_API_SECRET

\* C26: the live loop terminates: when it is started at most MaxTicks minutes
\* before 15:15, under a clock that keeps advancing and gateway calls that
\* return, run reaches a cycle at or after 15:15, squares off and exits.
C26_LoopReachesCutoff ==
    (now + MaxTicks >= DateOf(now) * DAY + FORCE_EXIT_TIME) => <>(pc = "stopped")


\* the risk an entry method works with: the distance from the stop to the
\* entry reference price, on the losing side
OptionRisk(s) ==
    FromEnd(s.inp.opt.bars, 2).close - FromEnd(s.inp.opt.bars, 2).low
FutLongRisk(s) ==
    s.signal_candle.close - Min2(s.signal_candle.low, s.prev_candle.low)
FutShortRisk(s) ==
    (IF s.signal_candle.high >= s.prev_candle.high
     THEN s.signal_candle.high ELSE s.prev_candle.high) - s.signal_candle.close
NothingEntered == placed = <<>> /\ trades = <<>> /\ orders = <<>>

\* C21: in every live entry path a computed risk <= 0 abandons the entry
\* before any order is placed, and no trade is registered
C21_NoEntryWithoutRisk ==
    /\ (pc = "_enter_long_ce" /\ sample.inp.opt.ok /\ OptionRisk(sample) <= 0)
           => NothingEntered
    /\ (pc = "_enter_long_fut" /\ FutLongRisk(sample) <= 0) => NothingEntered
    /\ (pc = "_enter_short_fut" /\ FutShortRisk(sample) <= 0) => NothingEntered

\* C22: every trade is created with its target at the reward multiple (2 in
\* the live strategies) of the distance between its recorded entry price and
\* its stop, beyond the entry price on the winning side
TargetFromEntry(trade) ==
    IF trade.direction = "LONG"
    THEN trade.target = trade.entry_price + 2 * (trade.entry_price - trade.stop_loss)
    ELSE trade.target = trade.entry_price - 2 * (trade.stop_loss - trade.entry_price)
C22_TargetFromEntry == \A i \in 1..Len(trades) : TargetFromEntry(trades[i])


\* the place in nifty_df of the row a logged NIFTY trade was entered on, and of
\* the row simulate_nifty_trade left it on: the row that reached the target or
\* the stop, or the last row of the entry day
EntryRow(trade) == CHOOSE k \in 1..Len(df) : df[k].date = trade.Time
RECURSIVE NiftyExitRowFrom(_, _, _, _, _, _)
NiftyExitRowFrom(d, j, entry_date, sl, target, direction) ==
    IF j > Len(d) THEN Len(d)
    ELSE IF DateOf(d[j].date) # entry_date THEN j - 1
    ELSE IF NiftyScanBar(d[j], sl, target, direction) # "NONE" THEN j
    ELSE NiftyExitRowFrom(d, j + 1, entry_date, sl, target, direction)
ExitRow(trade) ==
    NiftyExitRowFrom(df, EntryRow(trade) + 1, DateOf(trade.Time), trade.NIFTY_SL,
                     trade.NIFTY_Target,
                     IF trade.Direction = "LONG" THEN "CE" ELSE "PE")

\* C28: in the NIFTY + options replay no signal is processed while the NIFTY
\* trade simulated before has not exited: every logged NIFTY trade is entered
\* on the exit row of the trade logged before it, or later
C28_NiftyTradesDoNotOverlap ==
    \A k \in 2..Len(nifty_trades) :
        EntryRow(nifty_trades[k]) >= ExitRow(nifty_trades[k - 1])


\* the rule of a long position for a scan over the rows after the entry row
LongTargetReached(d, target) == \E i \in 2..Len(d) : d[i].high >= target
LongStopReached(d, sl, target) ==
    \E i \in 2..Len(d) : d[i].low <= sl /\ \A j \in 2..i : d[j].high < target

\* C31: every option leg of the NIFTY + options replay is a bought option, its
\* target above and its stop below its entry, and its outcome follows the
\* forward-scan rule of a long position for CE and for PE signals: TARGET_HIT
\* only if a row after the entry row has high >= target, SL_HIT only if a row
\* has low <= stop with no target breach before it
C31_OptionLegLongRule ==
    scanIn # NoScan =>
        LET leg == Last(option_trades)
        IN  /\ leg.SL < leg.Entry /\ leg.Entry < leg.Target
            /\ leg.Outcome = "TARGET_HIT" => LongTargetReached(scanIn.d, leg.Target)
            /\ leg.Outcome = "SL_HIT" => LongStopReached(scanIn.d, leg.SL, leg.Target)


\* the bar the loop would look at now, and the gates of _process_candles that
\* have been open ever since the process started: no entry was attempted
SignalTimeNow == SignalCandle(FetchedCandles).date
Evaluated(t) == \E k \in 1..Len(evalLog) : evalLog[k] = t
NoGateEverClosed ==
    /\ ~PastEntryEnd(now)
    /\ ~current_trade_active
    /\ sl_count_today = 0
    /\ trades = <<>>
    /\ placed = <<>>

\* C32: a bar the live loop first observes as the second-to-last bar before
\* its close time has elapsed is not lost: while it is the most recently closed
\* bar and no gate rejects it, it has been evaluated or the loop can still
\* evaluate it (it is not marked as processed)
C32_UnclosedBarNotLost ==
    (/\ pc = "run"
     /\ Len(FetchedCandles) >= MIN_EMA_LEN
     /\ CandleClosed(now, SignalTimeNow)
     /\ NoGateEverClosed)
        => (Evaluated(SignalTimeNow) \/ last_processed_candle_time # SignalTimeNow)


\* the trades that leave OPEN by a target or a stop in the step taken, those
\* entered in that step included
ClosedByStep ==
    {i \in 1..Len(trades') : /\ i <= Len(trades) => trades[i].status = "OPEN"
                             /\ trades'[i].status \in {"TARGET_HIT", "SL_HIT"}}

\* C33: in the live options loop, when a trade leaves OPEN by its target or its
\* stop, at the end of that loop iteration current_trade_active is false and
\* last_signal_candle_time is cleared, and the trade is taken into
\* processed_closed_trades in that iteration and in no other
C33_ResetOnClose ==
    [][/\ ClosedByStep # {} =>
            /\ ~current_trade_active'
            /\ last_signal_candle_time' = NoTime
            /\ pc' = "run"
       /\ processed_closed_trades' = processed_closed_trades \cup ClosedByStep
       /\ ClosedByStep \cap processed_closed_trades = {}]_vars
\* a second trade was opened after the first one left OPEN and was reset
C33_Witness ==
    /\ Len(trades) = 2
    /\ trades[1].status \in {"TARGET_HIT", "SL_HIT"}
    /\ processed_closed_trades = {1}
    /\ trades[2].status = "OPEN"
    /\ current_trade_active


\* a row of the replayed series after the warm-up that closes at its low or at
\* its high
ShutRow(k) ==
    /\ k > WARMUP /\ k <= Len(df)
    /\ (df[k].close = df[k].low \/ df[k].close = df[k].high)
WellFormed(d) ==
    \A k \in 1..Len(d) :
        /\ d[k].low <= Min2(d[k].open, d[k].close)
        /\ d[k].high >= d[k].open /\ d[k].high >= d[k].close

\* C34: in the primary replay, for every series of well-formed bars, every
\* logged trade has its levels on the correct sides with a strictly positive
\* risk: stop < entry < target for a bullish (CE) trade, target < entry < stop
\* for a bearish (PE) trade
C34_LevelsOnCorrectSides ==
    WellFormed(df) =>
        \A i \in 1..Len(rtrades) :
            IF rtrades[i].Direction = "CE"
            THEN rtrades[i].StopLoss < rtrades[i].Entry
                 /\ rtrades[i].Entry < rtrades[i].Target
            ELSE rtrades[i].Target < rtrades[i].Entry
                 /\ rtrades[i].Entry < rtrades[i].StopLoss
\* the replay is over: it passed over a bar that closes at its extreme, at a
\* time no other guard of the loop applies, and logged a trade on a later bar
C34_Witness ==
    /\ rpc = "done"
    /\ WellFormed(df)
    /\ Len(df) > WARMUP + 1
    /\ ShutRow(WARMUP + 1)
    /\ TimeOfDay(df[WARMUP + 1].date) < ENTRY_END_TIME
    /\ Len(rtrades) >= 1
    /\ rtrades[1].EntryTime > df[WARMUP + 1].date


RefusedExits == {k \in 1..Len(placed) : placed[k].trade > 0 /\ placed[k].result # "id"}

\* C36: in every state of the OrderManager a trade's status differs from OPEN
\* exactly when its exit_order_id is set; an exit whose order placement gave no
\* order id leaves the trade OPEN without exit_order_id, for a later
\* monitoring cycle to try again
C36_ClosedIffExitOrder ==
    /\ \A i \in 1..Len(trades) :
          (trades[i].status # "OPEN") <=> (trades[i].exit_order_id # 0)
    /\ \A k \in RefusedExits :
          /\ trades[placed[k].trade].status = "OPEN"
          /\ trades[placed[k].trade].exit_order_id = 0
\* a monitoring cycle asked for an exit, the broker returned no order id, and
\* the trade is still OPEN
C36_Witness ==
    /\ pc \in {"monitor_trades", "monitor_buy_option_trades"}
    /\ \E k \in RefusedExits : placed[k].result = "none"
    /\ \E i \in 1..Len(trades) : trades[i].status = "OPEN"


\* an order or a call for an order closes the position of a trade
Closes(order, trade) ==
    /\ order.symbol = trade.symbol
    /\ order.qty = trade.qty
    /\ order.side = IF trade.entry_transaction_type = "BUY" THEN "SELL" ELSE "BUY"
AcceptedEntries == {i \in 1..Len(trades) : trades[i].entry_order_id # 0}
AcceptedExits == {i \in 1..Len(trades) : trades[i].exit_order_id # 0}

\* C37: every exit order the OrderManager places closes the position it
\* belongs to: same symbol and quantity as the trade, the opposite transaction
\* type; and the broker holds at most one accepted exit order per trade: its
\* book holds the accepted entries and one exit for each closed trade, nothing
\* else
C37_ExitClosesPosition ==
    /\ \A k \in 1..Len(placed) :
          placed[k].trade > 0 => Closes(placed[k], trades[placed[k].trade])
    /\ \A i \in AcceptedExits : Closes(orders[trades[i].exit_order_id], trades[i])
    /\ \A i, j \in AcceptedExits :
          i # j => trades[i].exit_order_id # trades[j].exit_order_id
    /\ Len(orders) = Cardinality(AcceptedEntries) + Cardinality(AcceptedExits)
\* a trade entered with SELL was closed by an accepted BUY order
C37_Witness ==
    \E i \in AcceptedExits :
        /\ trades[i].entry_transaction_type = "SELL"
        /\ orders[trades[i].exit_order_id].side = "BUY"
        /\ \E k \in 1..Len(placed) : placed[k].trade = i /\ placed[k].result = "id"

=============================================================================
